---- MODULE Spec2Model ----
(***************************************************************************)
(* Document model and in-place layout editing engine of the rich-text      *)
(* editor: the ColumnLayout / Column / DivBlock node schema, the column     *)
(* commands, the container style commands, the column resize drag and the   *)
(* drag-and-drop insertion.                                                  *)
(*                                                                          *)
(* The document is the ProseMirror tree the commands work on: a node is a   *)
(* record [type, attrs, content, text]; positions are the integer offsets   *)
(* of the flattened token sequence (a leaf is 1 token, any other node is    *)
(* an opening token, its content and a closing token).                      *)
(*                                                                          *)
(* An attribute value is Null (= <<>>) or <<v>>.  A Column width is kept as *)
(* the number of tenths of a percent: the string "33.3%" is <<333>>.        *)
(***************************************************************************)
EXTENDS Integers, Sequences, FiniteSets, TLC

VARIABLES doc, sel, resize, op, arg, ret, changed, drags, drops, thrown, html, storedMarks,
          indicator, eventBridge, host, instance, element, email

vars ==
  <<doc, sel, resize, op, arg, ret, changed, drags, drops, thrown, html, storedMarks,
    indicator, eventBridge, host, instance, element, email>>

\* The state around the editor: the drop indicator, the event bridge, the
\* timers and events of the host page, the plugin instance, the element
\* that holds the toolbar and the sidebar, and the last email export.
hostVars == <<indicator, eventBridge, host, instance, element, email>>

\* The state of the editor itself.
editorVars == <<doc, sel, resize, drags, drops, html, storedMarks>>

(***************************************************************************)
(* Bounds of the model.                                                     *)
(***************************************************************************)
MaxDocSize == 20
MaxColumns == 4
MaxDrags == 2
MaxDrops == 1
MaxPayloadColumns == 3

(***************************************************************************)
(* Attribute values and the node schema.                                    *)
(***************************************************************************)
Null == <<>>

Some(v) == <<v>>

StyleKeys ==
  {"backgroundColor", "borderTopWidth", "borderRightWidth", "borderBottomWidth",
   "borderLeftWidth", "borderColor", "borderTopLeftRadius", "borderTopRightRadius",
   "borderBottomRightRadius", "borderBottomLeftRadius", "paddingTop",
   "paddingRight", "paddingBottom", "paddingLeft"}

StyleDefaults == [k \in StyleKeys |-> Null]

DEFAULT_COLUMNS == 2

MIN_COLUMN_WIDTH_PERCENT == 15

containerTypes == {"columnLayout", "column", "divBlock"}

\* The default attributes of a node type (addAttributes / addGlobalAttributes).
DefaultAttrs(type) ==
  CASE type = "columnLayout" -> ("columns" :> Some(DEFAULT_COLUMNS)) @@ StyleDefaults
    [] type = "column" -> ("width" :> Null) @@ StyleDefaults
    [] type = "divBlock" -> StyleDefaults
    [] type = "paragraph" -> StyleDefaults
    [] type = "blockquote" -> StyleDefaults
    [] OTHER -> <<>>

\* NodeType.create(attrs): every attribute of the schema takes the given
\* value, or its default when the given bag does not name it; keys that are
\* not attributes of the type are dropped.
ComputeAttrs(type, given) ==
  [k \in DOMAIN DefaultAttrs(type) |->
     IF k \in DOMAIN given THEN given[k] ELSE DefaultAttrs(type)[k]]

Paragraph(n) ==
  [type |-> "paragraph", attrs |-> DefaultAttrs("paragraph"), content |-> <<>>, text |-> n,
   marks |-> [i \in 1..n |-> Null]]

HorizontalRule ==
  [type |-> "horizontalRule", attrs |-> <<>>, content |-> <<>>, text |-> 0, marks |-> << >>]

DivBlock(kids) ==
  [type |-> "divBlock", attrs |-> DefaultAttrs("divBlock"), content |-> kids, text |-> 0, marks |-> << >>]

Column(kids) ==
  [type |-> "column", attrs |-> DefaultAttrs("column"), content |-> kids, text |-> 0, marks |-> << >>]

ColumnW(w, kids) ==
  [type |-> "column", attrs |-> ComputeAttrs("column", [width |-> w]), content |-> kids, text |-> 0, marks |-> << >>]

ColumnLayout(n, cols) ==
  [type |-> "columnLayout", attrs |-> ComputeAttrs("columnLayout", [columns |-> Some(n)]),
   content |-> cols, text |-> 0, marks |-> << >>]

\* n columns, each holding one empty paragraph.
EmptyColumns(n) == [i \in 1..n |-> Column(<< Paragraph(0) >>)]

Doc(kids) ==
  [type |-> "doc", attrs |-> <<>>, content |-> kids, text |-> 0, marks |-> << >>]

\* The text node nodeAt() returns for a position inside a paragraph's text.
TextNode == [type |-> "text", attrs |-> <<>>, content |-> <<>>, text |-> 0, marks |-> << >>]

NoNode == [type |-> "none", attrs |-> <<>>, content |-> <<>>, text |-> 0, marks |-> << >>]

\* The block types the drop templates add (nodes of the stock extensions).
Blockquote(kids) ==
  [type |-> "blockquote", attrs |-> DefaultAttrs("blockquote"), content |-> kids, text |-> 0, marks |-> << >>]

CodeBlock ==
  [type |-> "codeBlock", attrs |-> <<>>, content |-> <<>>, text |-> 0, marks |-> << >>]

Image ==
  [type |-> "image", attrs |-> <<>>, content |-> <<>>, text |-> 0, marks |-> << >>]

TableCell(type) ==
  [type |-> type, attrs |-> <<>>, content |-> << Paragraph(0) >>, text |-> 0, marks |-> << >>]

TableRow(cellType) ==
  [type |-> "tableRow", attrs |-> <<>>,
   content |-> << TableCell(cellType), TableCell(cellType), TableCell(cellType) >>,
   text |-> 0, marks |-> << >>]

Table(rows) ==
  [type |-> "table", attrs |-> <<>>, content |-> rows, text |-> 0, marks |-> << >>]

isLeaf(n) == n.type \in {"horizontalRule", "image"}

inlineContent(n) == n.type \in {"paragraph", "codeBlock"}

(***************************************************************************)
(* Sizes and positions (ProseMirror Node.nodeSize, Fragment.findIndex,      *)
(* Node.resolve, Node.nodeAt).                                              *)
(***************************************************************************)
RECURSIVE nodeSize(_)
RECURSIVE fragSize(_)

fragSize(kids) ==
  IF kids = <<>> THEN 0 ELSE nodeSize(Head(kids)) + fragSize(Tail(kids))

contentSize(n) ==
  IF inlineContent(n) THEN n.text ELSE fragSize(n.content)

nodeSize(n) ==
  IF isLeaf(n) THEN 1 ELSE 2 + contentSize(n)

\* F applied to the value of e.
Let(e, F(_)) == CHOOSE r \in {F(x) : x \in {e}} : TRUE

\* The offset, inside the content, of the start of child i+1 (i children lie before it).
childOffset(kids, i) == fragSize(SubSeq(kids, 1, i))

\* Fragment.findIndex(pos): the index (0-based) of the child that holds pos,
\* or of the child that starts at pos, with the offset of that child.
findIndex(kids, pos) ==
  Let([i \in 0..Len(kids) |-> childOffset(kids, i)], LAMBDA offsets :
  Let(CHOOSE i \in 0..Len(kids) :
        offsets[i] <= pos /\ (i = Len(kids) \/ pos < offsets[i + 1]),
      LAMBDA i : [index |-> i, offset |-> offsets[i]]))

\* ResolvedPos as the sequence of its levels: level d+1 describes depth d by
\* the node, the index into it and the position at which its content starts.
RECURSIVE resolveIn(_, _, _)
resolveIn(node, start, parentOffset) ==
  IF inlineContent(node)
    THEN << [node |-> node, index |-> 0, start |-> start] >>
    ELSE Let(findIndex(node.content, parentOffset), LAMBDA fi :
           << [node |-> node, index |-> fi.index, start |-> start] >> \o
             (IF parentOffset = fi.offset
                THEN << >>
                ELSE resolveIn(node.content[fi.index + 1], start + fi.offset + 1,
                               parentOffset - fi.offset - 1)))

resolve(d, pos) == resolveIn(d, 0, pos)

validPos(d, pos) == pos \in 0..contentSize(d)

depthOf(rp) == Len(rp) - 1

nodeAtDepth(rp, d) == rp[d + 1].node

parentOf(rp) == rp[Len(rp)].node

indexAt(rp, d) == rp[d + 1].index

startOf(rp, d) == rp[d + 1].start

beforeOf(rp, d) == rp[d + 1].start - 1

afterOf(rp, d) == rp[d + 1].start + contentSize(rp[d + 1].node) + 1

endOf(rp, d) == rp[d + 1].start + contentSize(rp[d + 1].node)

\* Node.nodeAt(pos): the node that starts at pos, the text node around pos, or none.
RECURSIVE nodeAtIn(_, _)
nodeAtIn(node, pos) ==
  IF inlineContent(node)
    THEN IF pos >= 0 /\ pos < node.text THEN TextNode ELSE NoNode
    ELSE IF pos < 0 \/ pos >= fragSize(node.content)
      THEN NoNode
      ELSE Let(findIndex(node.content, pos), LAMBDA fi :
             IF fi.offset = pos
               THEN node.content[fi.index + 1]
               ELSE nodeAtIn(node.content[fi.index + 1], pos - fi.offset - 1))

nodeAt(d, pos) == nodeAtIn(d, pos)

\* The positions at which a node of the given types starts.
nodePositions(d, types) == {q \in 0..(contentSize(d) - 1) : nodeAt(d, q).type \in types}

(***************************************************************************)
(* Selections: a text cursor at pos, a whole-node selection of the node     *)
(* that starts at pos, or the all-selection.  The resolved start $from of   *)
(* each is resolve(doc, pos).                                               *)
(***************************************************************************)
TextSel(p) == [kind |-> "text", pos |-> p]

NodeSel(p) == [kind |-> "node", pos |-> p]

AllSel == [kind |-> "all", pos |-> 0]

NoSel == [kind |-> "none", pos |-> 0]

\* NodeSelection.isSelectable: every node of this schema but text.
isSelectable(n) == n.type \notin {"text", "none", "doc"}

\* The selections a user can make in document d: a cursor in a textblock or
\* a click that selects a whole node.
validSel(d, s) ==
  \/ /\ s.kind = "text"
     /\ validPos(d, s.pos)
     /\ inlineContent(parentOf(resolve(d, s.pos)))
  \/ /\ s.kind = "node"
     /\ validPos(d, s.pos)
     /\ isSelectable(nodeAt(d, s.pos))

Selections(d) ==
  {s \in [kind : {"text", "node"}, pos : 0..contentSize(d)] : validSel(d, s)}

\* selection.$from
from(d, s) == resolve(d, s.pos)

\* Selection.findFrom / findSelectionIn of prosemirror-state.
RECURSIVE findSelectionIn(_, _, _, _)
RECURSIVE scanChildren(_, _, _, _)

scanChildren(node, pos, i, dir) ==
  IF (dir > 0 /\ i >= Len(node.content)) \/ (dir < 0 /\ i < 0)
    THEN NoSel
    ELSE Let(node.content[i + 1], LAMBDA child :
         Let(nodeSize(child), LAMBDA size :
         Let(IF isLeaf(child)
               THEN NodeSel(pos - (IF dir < 0 THEN size ELSE 0))
               ELSE findSelectionIn(child, pos + dir,
                                    IF dir < 0 THEN Len(child.content) ELSE 0, dir),
             LAMBDA inner :
               IF inner # NoSel
                 THEN inner
                 ELSE scanChildren(node, pos + size * dir, i + dir, dir))))

findSelectionIn(node, pos, index, dir) ==
  IF inlineContent(node)
    THEN TextSel(pos)
    ELSE scanChildren(node, pos, index - (IF dir > 0 THEN 0 ELSE 1), dir)

RECURSIVE findOutward(_, _, _)
findOutward(rp, depth, dir) ==
  IF depth < 0
    THEN NoSel
    ELSE Let(findSelectionIn(nodeAtDepth(rp, depth),
                             IF dir < 0 THEN beforeOf(rp, depth + 1)
                                        ELSE afterOf(rp, depth + 1),
                             IF dir < 0 THEN indexAt(rp, depth)
                                        ELSE indexAt(rp, depth) + 1,
                             dir),
             LAMBDA found :
               IF found # NoSel THEN found ELSE findOutward(rp, depth - 1, dir))

findFrom(d, pos, dir) ==
  Let(resolve(d, pos), LAMBDA rp :
  Let(IF inlineContent(parentOf(rp))
        THEN TextSel(pos)
        ELSE findSelectionIn(parentOf(rp), pos, indexAt(rp, depthOf(rp)), dir),
      LAMBDA inner :
        IF inner # NoSel THEN inner ELSE findOutward(rp, depthOf(rp) - 1, dir)))

\* Selection.near(doc.resolve(pos), bias)
near(d, pos, bias) ==
  Let(findFrom(d, pos, bias), LAMBDA there :
    IF there # NoSel
      THEN there
      ELSE Let(findFrom(d, pos, -bias), LAMBDA back :
             IF back # NoSel THEN back ELSE AllSel))

(***************************************************************************)
(* Steps: a replace step is [from, oldSize, newSize]; positions and the     *)
(* selection are mapped through it (StepMap.map, Selection.map).            *)
(***************************************************************************)
mapPos(pos, st) ==
  IF pos < st.from THEN pos
  ELSE IF pos > st.from + st.oldSize THEN pos + st.newSize - st.oldSize
  ELSE LET side == IF st.oldSize = 0 THEN 1
                   ELSE IF pos = st.from THEN -1 ELSE 1
       IN st.from + (IF side < 0 THEN 0 ELSE st.newSize)

mapDeleted(pos, st) ==
  /\ st.from <= pos
  /\ pos < st.from + st.oldSize

\* The selection of the transaction after a step that produced document d.
mapSel(d, s, st) ==
  Let(mapPos(s.pos, st), LAMBDA p :
    IF s.kind \notin {"text", "node"} THEN AllSel
    ELSE IF s.kind = "text" /\ inlineContent(parentOf(resolve(d, p))) THEN TextSel(p)
    ELSE IF s.kind = "node" /\ ~mapDeleted(s.pos, st) THEN NodeSel(p)
    ELSE near(d, p, 1))

(***************************************************************************)
(* Tree edits (Transform.setNodeMarkup, Transform.delete,                   *)
(* Transform.replaceWith as the commands use them).                         *)
(***************************************************************************)
\* setNodeMarkup(pos, undefined, attrs) on the node that starts at pos.
RECURSIVE setAttrsIn(_, _, _)
setAttrsIn(node, pos, attrs) ==
  Let(findIndex(node.content, pos), LAMBDA fi :
  Let(node.content[fi.index + 1], LAMBDA child :
    [node EXCEPT !.content[fi.index + 1] =
       IF fi.offset = pos
         THEN [child EXCEPT !.attrs = ComputeAttrs(child.type, attrs)]
         ELSE setAttrsIn(child, pos - fi.offset - 1, attrs)]))

setNodeMarkup(d, pos, attrs) == setAttrsIn(d, pos, attrs)

\* The content a node is filled with when a replace leaves it empty
\* (ContentMatch.fillBefore): block+ takes an empty paragraph, column+ a
\* column holding one.
fillEmpty(type) ==
  IF type = "columnLayout" THEN << Column(<< Paragraph(0) >>) >> ELSE << Paragraph(0) >>

\* Replace the children between the child boundaries from and to of one
\* parent by kids.
RECURSIVE spliceIn(_, _, _, _)
spliceIn(node, from_, to_, kids) ==
  Let(findIndex(node.content, from_), LAMBDA fi :
  Let(findIndex(node.content, to_), LAMBDA fj :
    IF fi.offset = from_ /\ fj.offset = to_
      THEN Let(SubSeq(node.content, 1, fi.index) \o kids
                 \o SubSeq(node.content, fj.index + 1, Len(node.content)),
               LAMBDA c :
                 [node EXCEPT !.content = IF c = <<>> THEN fillEmpty(node.type) ELSE c])
      ELSE [node EXCEPT !.content[fi.index + 1] =
              spliceIn(node.content[fi.index + 1], from_ - fi.offset - 1,
                       to_ - fi.offset - 1, kids)]))

\* tr.delete(from, to) of whole nodes, with the step it makes.
deleteRange(d, from_, to_) ==
  Let(spliceIn(d, from_, to_, <<>>), LAMBDA d2 :
    [doc |-> d2,
     step |-> [from |-> from_, oldSize |-> to_ - from_,
               newSize |-> contentSize(d2) - (contentSize(d) - (to_ - from_))]])

\* The step and document of inserting block node n at the boundary position
\* pos, whose parent is not a textblock (tr.replaceWith(pos, pos, n)):
\*  - a parent that admits n takes it at pos;
\*  - a ColumnLayout admits only columns, so the replace is fitted one level
\*    up: after the last column the node lands behind the layout, between two
\*    columns the layout is closed before the node and reopened behind it.
fitReplace(rp, pos, n) ==
  Let(parentOf(rp), LAMBDA parent :
  Let(depthOf(rp), LAMBDA depth :
    IF parent.type # "columnLayout" \/ n.type = "column"
      THEN [from |-> pos, to |-> pos, kids |-> << n >>,
            step |-> [from |-> pos, oldSize |-> 0, newSize |-> nodeSize(n)]]
    ELSE IF pos = endOf(rp, depth)
      THEN [from |-> pos + 1, to |-> pos + 1, kids |-> << n >>,
            step |-> [from |-> pos, oldSize |-> 1, newSize |-> 1 + nodeSize(n)]]
    ELSE [from |-> beforeOf(rp, depth), to |-> afterOf(rp, depth),
          kids |-> << [parent EXCEPT !.content =
                         SubSeq(parent.content, 1, indexAt(rp, depth))],
                      n,
                      [parent EXCEPT !.content =
                         SubSeq(parent.content, indexAt(rp, depth) + 1,
                                Len(parent.content))] >>,
          step |-> [from |-> pos, oldSize |-> 0, newSize |-> nodeSize(n) + 2]]))

\* tr.replaceWith(pos, pos, n)
replaceWith(d, pos, n) ==
  Let(fitReplace(resolve(d, pos), pos, n), LAMBDA fit :
    [doc |-> spliceIn(d, fit.from, fit.to, fit.kids), step |-> fit.step])

\* insertContentAt(pos, n) of the command layer: the replace, then the
\* selection is put at the end of the inserted content
\* (selectionToInsertionEnd: Selection.near(end, -1)).
insertContentAt(d, pos, n) ==
  Let(replaceWith(d, pos, n), LAMBDA r :
    [doc |-> r.doc, sel |-> near(r.doc, r.step.from + r.step.newSize, -1)])

Max(S) == CHOOSE x \in S : \A y \in S : y <= x

Min(S) == CHOOSE x \in S : \A y \in S : x <= y

\* The depths (1..depth) of the ancestors of a resolved position whose type is in types.
ancestorDepths(rp, types) ==
  {dp \in 1..depthOf(rp) : nodeAtDepth(rp, dp).type \in types}

\* The positions of the nodes updateAttributes(type, ..) rewrites for
\* selection s: for an empty selection the deepest enclosing node of the
\* type; otherwise that node and every node of the type inside the selected
\* range.
updateTargets(d, s, type) ==
  Let(from(d, s), LAMBDA rp :
  Let(ancestorDepths(rp, {type}), LAMBDA ds :
    (IF ds = {} \/ s.kind = "all" THEN {} ELSE {beforeOf(rp, Max(ds))})
      \cup (IF s.kind = "text"
              THEN {}
              ELSE {q \in (IF s.kind = "node"
                             THEN s.pos..(afterOf(rp, depthOf(rp)) - 1)
                             ELSE 0..(contentSize(d) - 1)) :
                      q >= s.pos /\ nodeAt(d, q).type = type})))

RECURSIVE mergeAttrsAt(_, _, _)
mergeAttrsAt(d, targets, attributes) ==
  IF targets = {}
    THEN d
    ELSE LET q == CHOOSE x \in targets : TRUE
         IN mergeAttrsAt(setNodeMarkup(d, q, attributes @@ nodeAt(d, q).attrs),
                         targets \ {q}, attributes)

\* commands.updateAttributes(type, attributes) on the transaction's document and selection.
updateAttributes(d, s, type, attributes) ==
  Let(updateTargets(d, s, type), LAMBDA targets :
  Let(mergeAttrsAt(d, targets, attributes), LAMBDA d2 :
    [doc |-> d2,
     sel |-> IF s.kind = "node" /\ s.pos \in targets THEN near(d2, s.pos, 1) ELSE s]))

\* The outcome of a command: the document and selection of the dispatched
\* transaction, the value returned and whether the command put a step or a
\* selection into the transaction.
Outcome(d, s, r, c) == [doc |-> d, sel |-> s, ret |-> r, changed |-> c]

Failed(d, s) == Outcome(d, s, FALSE, FALSE)

\* commands.deleteNode(type): deletes the nearest ancestor of the type of the selection anchor.
deleteNode(d, s, type) ==
  Let(from(d, s), LAMBDA rp :
  Let(ancestorDepths(rp, {type}), LAMBDA ds :
    IF ds = {}
      THEN Failed(d, s)
      ELSE Let(deleteRange(d, beforeOf(rp, Max(ds)), afterOf(rp, Max(ds))), LAMBDA r :
             Outcome(r.doc, mapSel(r.doc, s, r.step), TRUE, TRUE))))

\* $from.node(-k): the ancestor k levels above the parent, if there is one.
nodeUp(rp, k) ==
  IF depthOf(rp) - k >= 0 THEN nodeAtDepth(rp, depthOf(rp) - k) ELSE NoNode

removeColumnLayout(d, s) ==
  Let(from(d, s), LAMBDA rp :
    IF nodeUp(rp, 1).type = "columnLayout" \/ nodeUp(rp, 2).type = "columnLayout"
      THEN deleteNode(d, s, "columnLayout")
      ELSE Failed(d, s))

\* Faulty variant: the command reports success when no layout is around the cursor.
addColumn_NoLayoutSucceeds(d, s) ==
  Let(from(d, s), LAMBDA rp :
  Let(ancestorDepths(rp, {"columnLayout"}), LAMBDA ds :
    IF ds = {}
      THEN Outcome(d, s, TRUE, FALSE)
      ELSE Let(beforeOf(rp, Max(ds)), LAMBDA layoutPos :
           Let(nodeAtDepth(rp, Max(ds)), LAMBDA layoutNode :
           Let(insertContentAt(d, layoutPos + nodeSize(layoutNode) - 1,
                               Column(<< Paragraph(0) >>)),
               LAMBDA ins :
           Let(updateAttributes(ins.doc, ins.sel, "columnLayout",
                                [columns |-> Some(layoutNode.attrs.columns[1] + 1)]),
               LAMBDA upd : Outcome(upd.doc, upd.sel, TRUE, TRUE)))))))

\* commands.addColumn()
addColumn(d, s) ==
  Let(from(d, s), LAMBDA rp :
  Let(ancestorDepths(rp, {"columnLayout"}), LAMBDA ds :
    IF ds = {}
      THEN Failed(d, s)
      ELSE Let(beforeOf(rp, Max(ds)), LAMBDA layoutPos :
           Let(nodeAtDepth(rp, Max(ds)), LAMBDA layoutNode :
           Let(insertContentAt(d, layoutPos + nodeSize(layoutNode) - 1,
                               Column(<< Paragraph(0) >>)),
               LAMBDA ins :
           Let(updateAttributes(ins.doc, ins.sel, "columnLayout",
                                [columns |-> Some(layoutNode.attrs.columns[1] + 1)]),
               LAMBDA upd : Outcome(upd.doc, upd.sel, TRUE, TRUE)))))))

removeColumn(d, s) ==
  Let(from(d, s), LAMBDA rp :
  Let(ancestorDepths(rp, {"column"}), LAMBDA ds :
    IF ds = {}
      THEN Failed(d, s)
      ELSE Let(nodeAtDepth(rp, Max(ds) - 1), LAMBDA layoutNode :
             IF Len(layoutNode.content) > 1
               THEN Let(beforeOf(rp, Max(ds)), LAMBDA pos :
                    Let(deleteRange(d, pos, pos + nodeSize(nodeAtDepth(rp, Max(ds)))),
                        LAMBDA del :
                    Let(updateAttributes(del.doc, mapSel(del.doc, s, del.step),
                                         "columnLayout",
                                         [columns |-> Some(layoutNode.attrs.columns[1] - 1)]),
                        LAMBDA upd : Outcome(upd.doc, upd.sel, TRUE, TRUE))))
               ELSE removeColumnLayout(d, s))))

(***************************************************************************)
(* Container style commands (BlockStyle extension).                         *)
(***************************************************************************)
\* Faulty variants of the container resolution: the traversal stops at the
\* outermost container instead of the nearest; the whole-node selection of a
\* container is not looked at.
containerPosOf_Outermost(d, s) ==
  Let(from(d, s), LAMBDA rp :
  Let(ancestorDepths(rp, containerTypes), LAMBDA ds :
    IF s.kind = "node" /\ nodeAt(d, s.pos).type \in containerTypes THEN s.pos
    ELSE IF ds # {} THEN beforeOf(rp, Min(ds))
    ELSE -1))

containerPosOf_AncestorsOnly(d, s) ==
  Let(from(d, s), LAMBDA rp :
  Let(ancestorDepths(rp, containerTypes), LAMBDA ds :
    IF ds # {} THEN beforeOf(rp, Max(ds)) ELSE -1))

\* Container resolution: a whole-node selection of a container is the
\* target; otherwise the nearest enclosing container of $from.  The result
\* is the position of the container, or -1 when there is none.
containerPosOf(d, s) ==
  Let(from(d, s), LAMBDA rp :
  Let(ancestorDepths(rp, containerTypes), LAMBDA ds :
    IF s.kind = "node" /\ nodeAt(d, s.pos).type \in containerTypes THEN s.pos
    ELSE IF ds # {} THEN beforeOf(rp, Max(ds))
    ELSE -1))

\* Faulty variant: the selection is left as it was.
setParentContainerStyle_KeepSelection(d, s, attributes) ==
  Let(containerPosOf(d, s), LAMBDA containerPos :
    IF containerPos = -1
      THEN Failed(d, s)
      ELSE Let(attributes @@ nodeAt(d, containerPos).attrs, LAMBDA mergedAttrs :
             Outcome(setNodeMarkup(d, containerPos, mergedAttrs), s, TRUE, TRUE)))

\* Faulty variant: the provided attributes replace the container's attributes.
setParentContainerStyle_Replace(d, s, attributes) ==
  Let(containerPosOf(d, s), LAMBDA containerPos :
    IF containerPos = -1
      THEN Failed(d, s)
      ELSE Outcome(setNodeMarkup(d, containerPos, attributes),
                   NodeSel(containerPos), TRUE, TRUE))

\* commands.setParentContainerStyle(attributes)
setParentContainerStyle(d, s, attributes) ==
  Let(containerPosOf(d, s), LAMBDA containerPos :
    IF containerPos = -1
      THEN Failed(d, s)
      ELSE Let(attributes @@ nodeAt(d, containerPos).attrs, LAMBDA mergedAttrs :
             Outcome(setNodeMarkup(d, containerPos, mergedAttrs),
                     NodeSel(containerPos), TRUE, TRUE)))

\* Faulty variant: the traversal selects the outermost container.
selectParentContainer_Outermost(d, s) ==
  Let(from(d, s), LAMBDA rp :
  Let(ancestorDepths(rp, containerTypes), LAMBDA ds :
    IF ds = {}
      THEN Failed(d, s)
      ELSE Outcome(d, NodeSel(beforeOf(rp, Min(ds))), TRUE, TRUE)))

\* commands.selectParentContainer()
selectParentContainer(d, s) ==
  Let(from(d, s), LAMBDA rp :
  Let(ancestorDepths(rp, containerTypes), LAMBDA ds :
    IF ds = {}
      THEN Failed(d, s)
      ELSE Outcome(d, NodeSel(beforeOf(rp, Max(ds))), TRUE, TRUE)))

\* The attribute bag passed to setParentContainerStyle.
StyleInputs ==
  { [backgroundColor |-> Some("#ff0000"), paddingTop |-> Some(10)] }

(***************************************************************************)
(* The column resize drag (columnResize plugin).  Widths are computed in    *)
(* exact arithmetic: a percentage is a whole number of Units.               *)
(***************************************************************************)
\* Units per percent: 100/n is a whole number of units for n = 1..8.
Units == 840

\* Units per tenth of a percent.
Tenth == Units \div 10

ResizeInit ==
  [dragging |-> FALSE, startX |-> 0, columnPos |-> 0, nextColumnPos |-> 0,
   startWidths |-> [left |-> 0, right |-> 0], layoutWidth |-> 0]

\* x.toFixed(1), as the number of tenths: the nearest tenth, the larger in
\* magnitude of two equally near.
toFixed1(u) ==
  IF u >= 0 THEN (2 * u + Tenth) \div (2 * Tenth)
  ELSE -((2 * (-u) + Tenth) \div (2 * Tenth))

\* parseFloat of a width string "t/10 %".
parseWidth(w) == w[1] * Tenth

\* The effective width of a column of a layout with totalColumns columns.
effectiveWidth(column, totalColumns) ==
  IF column.attrs.width # Null THEN parseWidth(column.attrs.width)
  ELSE (100 * Units) \div totalColumns

\* (deltaX / layoutWidth) * 100
deltaPercent(deltaX, layoutWidth) == (deltaX * 100 * Units) \div layoutWidth

\* The minimum width of a dragged column, in percent.
minWidth == 15

\* The two widths of a pointer-move, before they are formatted.
newWidths(startWidths, delta) ==
  Let(minWidth * Units, LAMBDA min :
  Let(startWidths.left + startWidths.right, LAMBDA sum :
  Let(IF startWidths.left + delta < min
        THEN [left |-> min, right |-> sum - min]
        ELSE [left |-> startWidths.left + delta, right |-> startWidths.right - delta],
      LAMBDA w :
        IF w.right < min THEN [left |-> sum - min, right |-> min] ELSE w)))

\* mousedown on the resize handle of column columnIndex of the layout at layoutPos.
mousedown(d, rs, layoutPos, columnIndex, clientX, rectWidth) ==
  Let(nodeAt(d, layoutPos), LAMBDA layoutNode :
  Let(Len(layoutNode.content), LAMBDA totalColumns :
    IF columnIndex >= totalColumns - 1 \/ layoutNode.type # "columnLayout"
      THEN [state |-> rs, ret |-> FALSE]
      ELSE [state |->
              [dragging |-> TRUE,
               startX |-> clientX,
               columnPos |-> layoutPos + 1 + childOffset(layoutNode.content, columnIndex),
               nextColumnPos |->
                 layoutPos + 1 + childOffset(layoutNode.content, columnIndex + 1),
               startWidths |->
                 [left |-> effectiveWidth(layoutNode.content[columnIndex + 1], totalColumns),
                  right |-> effectiveWidth(layoutNode.content[columnIndex + 2], totalColumns)],
               layoutWidth |-> IF rectWidth = 0 THEN 600 ELSE rectWidth],
            ret |-> TRUE]))

\* Whether setNodeMarkup(pos, ..) finds a node it can rewrite at pos.
canSetMarkup(d, pos) ==
  /\ pos >= 0
  /\ pos < contentSize(d)
  /\ nodeAt(d, pos).type \notin {"none", "text"}

\* mousemove while dragging: both widths are written in one transaction; a
\* position that holds no node makes setNodeMarkup throw and nothing is dispatched.
mousemove(d, s, rs, clientX) ==
  IF ~rs.dragging \/ ~canSetMarkup(d, rs.columnPos) \/ ~canSetMarkup(d, rs.nextColumnPos)
    THEN Failed(d, s)
    ELSE Let(newWidths(rs.startWidths, deltaPercent(clientX - rs.startX, rs.layoutWidth)),
             LAMBDA w :
         Let(setNodeMarkup(d, rs.columnPos, [width |-> Some(toFixed1(w.left))]),
             LAMBDA d1 :
         Let(setNodeMarkup(d1, rs.nextColumnPos, [width |-> Some(toFixed1(w.right))]),
             LAMBDA d2 :
           Outcome(d2,
                   IF s.kind = "node" /\ s.pos \in {rs.columnPos, rs.nextColumnPos}
                     THEN near(d2, s.pos, 1) ELSE s,
                   TRUE, TRUE))))

\* Pointer positions and rendered layout widths (0: not laid out yet).
PointerXs == {0, 40, 4000}

RectWidths == {0, 400}

MouseDown ==
  /\ drags < MaxDrags
  /\ \E layoutPos \in nodePositions(doc, {"columnLayout"}), clientX \in PointerXs,
        rectWidth \in RectWidths :
       \E columnIndex \in 0..(Len(nodeAt(doc, layoutPos).content) - 1) :
         \E r \in {mousedown(doc, resize, layoutPos, columnIndex, clientX, rectWidth)} :
            /\ resize' = r.state
            /\ ret' = r.ret
            /\ changed' = FALSE
            /\ op' = "mousedown"
            /\ arg' = <<>>
            /\ drags' = IF r.ret THEN drags + 1 ELSE drags
            /\ thrown' = FALSE
            /\ UNCHANGED <<doc, sel, drops, html, storedMarks, hostVars>>

MouseMove ==
  \E clientX \in PointerXs :
    \E o \in {mousemove(doc, sel, resize, clientX)} :
       /\ doc' = o.doc
       /\ sel' = o.sel
       /\ ret' = o.ret
       /\ changed' = o.changed
       /\ op' = "mousemove"
       /\ arg' = <<>>
       /\ thrown' = (resize.dragging /\ ~o.ret)
       /\ storedMarks' = IF o.changed THEN Null ELSE storedMarks
       /\ UNCHANGED <<resize, drags, drops, html, hostVars>>

\* Faulty variant: pointer-up leaves the drag active.
MouseUp_StaysDragging ==
  /\ ret' = resize.dragging
  /\ changed' = FALSE
  /\ op' = "mouseup"
  /\ arg' = <<>>
  /\ thrown' = FALSE
  /\ UNCHANGED <<doc, sel, resize, drags, drops, html, storedMarks, hostVars>>

MouseUp ==
  /\ resize' = IF resize.dragging THEN [resize EXCEPT !.dragging = FALSE] ELSE resize
  /\ ret' = resize.dragging
  /\ changed' = FALSE
  /\ op' = "mouseup"
  /\ arg' = <<>>
  /\ thrown' = FALSE
  /\ UNCHANGED <<doc, sel, drags, drops, html, storedMarks, hostVars>>

(***************************************************************************)
(* Actions of the command layer.                                            *)
(***************************************************************************)
Apply(o, name) ==
  \E r \in {o} :
    /\ doc' = r.doc
    /\ sel' = r.sel
    /\ ret' = r.ret
    /\ changed' = r.changed
    /\ op' = name
    /\ arg' = <<>>
    /\ thrown' = FALSE
    /\ storedMarks' = IF r.changed THEN Null ELSE storedMarks
    /\ UNCHANGED <<resize, drags, drops, html, hostVars>>

\* The user puts the cursor into a textblock or clicks a node.
SetSelection ==
  \E s \in Selections(doc) : Apply(Outcome(doc, s, TRUE, TRUE), "setSelection")

AddColumn ==
  /\ contentSize(doc) + 4 <= MaxDocSize
  /\ \A q \in nodePositions(doc, {"columnLayout"}) :
        nodeAt(doc, q).attrs.columns[1] < MaxColumns
  /\ Apply(addColumn(doc, sel), "addColumn")

RemoveColumn == Apply(removeColumn(doc, sel), "removeColumn")

RemoveColumnLayout == Apply(removeColumnLayout(doc, sel), "removeColumnLayout")

SetParentContainerStyle ==
  \E attributes \in StyleInputs :
    Apply(setParentContainerStyle(doc, sel, attributes), "setParentContainerStyle")

SelectParentContainer == Apply(selectParentContainer(doc, sel), "selectParentContainer")

(***************************************************************************)
(* Drag-and-drop insertion (DragDropManager).                               *)
(***************************************************************************)
\* What a drop carries.  data is "none" (getData gives the empty string),
\* "unparseable" (JSON.parse throws), "null" (the JSON text null), "scalar"
\* (a JSON number, string, boolean or array: reading .type gives undefined)
\* or "object"; an object has a type tag, content.columns (Null when the
\* payload carries none) and, for an image, whether the prompt returns a URL.
Payload(data, type, columns, url) ==
  [data |-> data, type |-> type, columns |-> columns, url |-> url]

DropTypes ==
  {"divBlock", "columnLayout", "table", "image", "codeBlock", "blockquote",
   "horizontalRule"}

DropPayloads ==
  {Payload("none", "", Null, FALSE), Payload("unparseable", "", Null, FALSE),
   Payload("null", "", Null, FALSE), Payload("scalar", "", Null, FALSE),
   Payload("object", "unknown", Null, FALSE),
   Payload("object", "image", Null, TRUE)}
    \cup {Payload("object", "columnLayout", Some(n), FALSE) : n \in 0..MaxPayloadColumns}
    \cup {Payload("object", t, Null, FALSE) : t \in DropTypes}

\* insertContent leaving the columns attribute at its default.
template_DefaultColumnsAttr(dragData) ==
  CASE dragData.type = "divBlock" -> DivBlock(<< Paragraph(0) >>)
    [] dragData.type = "columnLayout" ->
         Let(IF dragData.columns \in {Null, Some(0)} THEN 2 ELSE dragData.columns[1],
             LAMBDA columns : ColumnLayout(DEFAULT_COLUMNS, EmptyColumns(columns)))
    [] dragData.type = "table" ->
         Table(<< TableRow("tableHeader"), TableRow("tableCell"), TableRow("tableCell") >>)
    [] dragData.type = "image" -> IF dragData.url THEN Image ELSE NoNode
    [] dragData.type = "codeBlock" -> CodeBlock
    [] dragData.type = "blockquote" -> Blockquote(<< Paragraph(0) >>)
    [] dragData.type = "horizontalRule" -> HorizontalRule
    [] OTHER -> NoNode

\* The node insertContent() builds for a payload; NoNode when it inserts nothing.
\* (dragData.content?.columns as number) || 2: no count and a count of 0 give 2.
template(dragData) ==
  CASE dragData.type = "divBlock" -> DivBlock(<< Paragraph(0) >>)
    [] dragData.type = "columnLayout" ->
         Let(IF dragData.columns \in {Null, Some(0)} THEN 2 ELSE dragData.columns[1],
             LAMBDA columns : ColumnLayout(columns, EmptyColumns(columns)))
    [] dragData.type = "table" ->
         Table(<< TableRow("tableHeader"), TableRow("tableCell"), TableRow("tableCell") >>)
    [] dragData.type = "image" -> IF dragData.url THEN Image ELSE NoNode
    [] dragData.type = "codeBlock" -> CodeBlock
    [] dragData.type = "blockquote" -> Blockquote(<< Paragraph(0) >>)
    [] dragData.type = "horizontalRule" -> HorizontalRule
    [] OTHER -> NoNode

\* A handler that ran to its end with outcome o, and one that threw.
Returned(o) == [doc |-> o.doc, sel |-> o.sel, ret |-> o.ret, changed |-> o.changed,
                threw |-> FALSE]

Threw(d, s) == [doc |-> d, sel |-> s, ret |-> FALSE, changed |-> FALSE, threw |-> TRUE]

\* switch (dragData.type): reading .type of null throws a TypeError.
insertContent(d, s, insertPos, dragData) ==
  IF dragData.data = "null"
    THEN Threw(d, s)
    ELSE Let(template(dragData), LAMBDA n :
           IF n = NoNode
             THEN Returned(Failed(d, s))
             ELSE Let(insertContentAt(d, insertPos, n), LAMBDA r :
                    Returned(Outcome(r.doc, r.sel, TRUE, TRUE))))

\* The position the drop inserts at for pointer position pos.
dropInsertPos(d, pos) ==
  Let(resolve(d, pos), LAMBDA resolvedPos :
    IF parentOf(resolvedPos).type # "doc"
      THEN afterOf(resolvedPos, depthOf(resolvedPos))
      ELSE pos)

\* pos is the result of posAtCoords, -1 when the pointer is over no position.
insertAtDropPosition(d, s, pos, dragData) ==
  IF pos = -1
    THEN Returned(Failed(d, s))
    ELSE insertContent(d, s, dropInsertPos(d, pos), dragData)

\* The drop indicator as setupDropZone creates it: not displayed.
IndicatorInit == [display |-> "none", top |-> 0]

\* hideDropIndicator: display = 'none'; the top it was drawn at stays.
hideDropIndicator(ind) == [ind EXCEPT !.display = "none"]

\* handleDrop without its try/catch.
handleDrop_NoCatch(d, s, pos, payload) ==
  IF payload.data = "none"
    THEN Returned(Failed(d, s))
    ELSE IF payload.data = "unparseable"
      THEN Threw(d, s)
      ELSE insertAtDropPosition(d, s, pos, payload)

\* if (!data) return; try { JSON.parse; insertAtDropPosition } catch { log }
handleDrop(d, s, pos, payload) ==
  IF payload.data = "none"
    THEN Returned(Failed(d, s))
    ELSE Let(IF payload.data = "unparseable"
               THEN Threw(d, s)
               ELSE insertAtDropPosition(d, s, pos, payload),
             LAMBDA r : IF r.threw THEN Returned(Failed(d, s)) ELSE r)

Drop ==
  /\ drops < MaxDrops
  /\ contentSize(doc) <= MaxDocSize
  /\ \E pos \in (-1)..contentSize(doc), payload \in DropPayloads :
       \E o \in {handleDrop(doc, sel, pos, payload)} :
          /\ doc' = o.doc
          /\ sel' = o.sel
          /\ ret' = o.ret
          /\ changed' = o.changed
          /\ op' = "drop"
          /\ arg' = [pos |-> pos, payload |-> payload]
          /\ drops' = drops + 1
          /\ thrown' = o.threw
          /\ storedMarks' = IF o.changed THEN Null ELSE storedMarks
          /\ indicator' = hideDropIndicator(indicator)
          /\ UNCHANGED <<resize, drags, html, eventBridge, host, instance, element, email>>

\* getDropPosition: the position the indicator is drawn at for pointer
\* position pos, -1 when the pointer is over no position.  The parent of a
\* resolved position is always a block, the top-level doc included, and
\* ResolvedPos.before raises a RangeError at depth 0.
getDropPosition(d, pos) ==
  IF pos = -1
    THEN [threw |-> FALSE, pos |-> Null]
    ELSE Let(resolve(d, pos), LAMBDA resolvedPos :
           IF depthOf(resolvedPos) = 0
             THEN [threw |-> TRUE, pos |-> Null]
             ELSE [threw |-> FALSE,
                   pos |-> Some(beforeOf(resolvedPos, depthOf(resolvedPos)))])

\* showDropIndicator: the indicator is shown at the top of the position
\* getDropPosition returns and left alone when it returns null.
showDropIndicator(ind, d, pos) ==
  Let(getDropPosition(d, pos), LAMBDA p :
    IF p.threw
      THEN [threw |-> TRUE, indicator |-> ind]
      ELSE IF p.pos = Null
        THEN [threw |-> FALSE, indicator |-> ind]
        ELSE [threw |-> FALSE,
              indicator |-> [display |-> "block", top |-> p.pos[1]]])

\* handleDragOver: the pointer moves over the editor during a drag.
DragOver ==
  /\ contentSize(doc) <= MaxDocSize
  /\ \E pos \in (-1)..contentSize(doc) :
       \E o \in {showDropIndicator(indicator, doc, pos)} :
          /\ indicator' = o.indicator
          /\ thrown' = o.threw
          /\ ret' = ~o.threw
          /\ changed' = FALSE
          /\ op' = "dragover"
          /\ arg' = [pos |-> pos]
          /\ UNCHANGED <<editorVars, eventBridge, host, instance, element, email>>

\* handleDragLeave: the indicator is hidden when the pointer leaves the
\* editor element, and kept when it moves to an element inside it.
DragLeave ==
  /\ \E inside \in BOOLEAN :
       /\ indicator' = IF inside THEN indicator ELSE hideDropIndicator(indicator)
       /\ op' = "dragleave"
       /\ arg' = [inside |-> inside]
       /\ ret' = TRUE
       /\ changed' = FALSE
       /\ thrown' = FALSE
       /\ UNCHANGED <<editorVars, eventBridge, host, instance, element, email>>

(***************************************************************************)
(* The TextSize mark.  A paragraph keeps, for each character of its text,   *)
(* the size of the TextSize mark the character carries, Null when it        *)
(* carries none.  storedMarks is Null when the state stores no marks, and   *)
(* Some(v) when it stores the mark v (Some(Null): no TextSize mark) for the *)
(* text typed next.                                                         *)
(***************************************************************************)
MaxText == 2

\* options.sizes
sizes ==
  ("small" :> "13px") @@ ("medium" :> "16px") @@ ("large" :> "20px") @@ ("xlarge" :> "24px")

\* The sizes the commands are called with, and those of the sidebar buttons.
CommandSizes == {"small", "medium"}

SidebarSizes == {"small", "medium"}

\* selection.to
rangeTo(d, s) ==
  CASE s.kind = "node" -> s.pos + nodeSize(nodeAt(d, s.pos))
    [] s.kind = "all" -> contentSize(d)
    [] OTHER -> s.pos

RECURSIVE markNode(_, _, _, _, _)
RECURSIVE markFragment(_, _, _, _, _)
\* The node at pos with the mark of every character between lo and hi set to v.
markNode(node, pos, lo, hi, v) ==
  IF node.type = "paragraph"
    THEN [node EXCEPT !.marks =
            [i \in 1..node.text |->
               IF lo <= pos + i /\ pos + i + 1 <= hi THEN v ELSE node.marks[i]]]
    ELSE IF node.content = << >> THEN node
    ELSE [node EXCEPT !.content = markFragment(node.content, pos + 1, lo, hi, v)]

markFragment(kids, start, lo, hi, v) ==
  IF kids = << >> THEN << >>
  ELSE << markNode(Head(kids), start, lo, hi, v) >>
         \o markFragment(Tail(kids), start + nodeSize(Head(kids)), lo, hi, v)

\* tr.addMark(from, to, mark) with v = Some(size); tr.removeMark(from, to, type) with v = Null.
markRange(d, lo, hi, v) == [d EXCEPT !.content = markFragment(d.content, 0, lo, hi, v)]

\* There is text between lo and hi.
textBetween(d, lo, hi) == markRange(d, lo, hi, Some("")) # markRange(d, lo, hi, Null)

\* $pos.marks(): the mark of the character before the position, of the
\* character after it at the start of the text, none in an empty textblock.
marksAt(d, pos) ==
  Let(resolve(d, pos), LAMBDA rp :
  Let(parentOf(rp), LAMBDA parent :
  Let(pos - rp[Len(rp)].start, LAMBDA offset :
    IF parent.type # "paragraph" \/ parent.text = 0 THEN Null
    ELSE IF offset > 0 THEN parent.marks[offset]
    ELSE parent.marks[1])))

\* Transaction.ensureMarks(marks): the marks are stored unless they are the
\* marks in effect already.
ensureMarks(d, s, stored, v) ==
  IF (IF stored # Null THEN stored[1] ELSE marksAt(d, s.pos)) = v THEN stored ELSE Some(v)

Marked(d, s, r, stored, old) ==
  [doc |-> d, sel |-> s, ret |-> r, changed |-> (d # old), stored |-> stored]

\* commands.setMark('textSize', { size })
setMark(d, s, stored, size) ==
  IF s.kind = "text"
    THEN Marked(d, s, parentOf(from(d, s)).type = "paragraph",
                ensureMarks(d, s, stored, Some(size)), d)
    ELSE Marked(markRange(d, s.pos, rangeTo(d, s), Some(size)), s,
                textBetween(d, s.pos, rangeTo(d, s)), Null, d)

\* commands.unsetMark('textSize')
unsetMark(d, s, stored) ==
  IF s.kind = "text"
    THEN Marked(d, s, TRUE, ensureMarks(d, s, stored, Null), d)
    ELSE Marked(markRange(d, s.pos, rangeTo(d, s), Null), s, TRUE, Null, d)

\* commands.setTextSize(size)
setTextSize(d, s, stored, size) == setMark(d, s, stored, size)

\* commands.unsetTextSize()
unsetTextSize(d, s, stored) == unsetMark(d, s, stored)

\* Sidebar.setTextSize(size)
Sidebar_setTextSize(d, s, stored, size) ==
  IF size = "medium" THEN unsetTextSize(d, s, stored) ELSE setTextSize(d, s, stored, size)

RECURSIVE typeNode(_, _, _, _)
RECURSIVE typeFragment(_, _, _, _)
\* The node at p with one character that carries v typed at position pos.
typeNode(node, p, pos, v) ==
  IF ~(p < pos /\ pos < p + nodeSize(node)) THEN node
  ELSE IF node.type = "paragraph"
    THEN [node EXCEPT !.text = node.text + 1,
                      !.marks = SubSeq(node.marks, 1, pos - p - 1) \o << v >>
                                  \o SubSeq(node.marks, pos - p, node.text)]
    ELSE [node EXCEPT !.content = typeFragment(node.content, p + 1, pos, v)]

typeFragment(kids, start, pos, v) ==
  IF kids = << >> THEN << >>
  ELSE << typeNode(Head(kids), start, pos, v) >>
         \o typeFragment(Tail(kids), start + nodeSize(Head(kids)), pos, v)

\* One character typed at the cursor: it takes the stored marks, or the
\* marks at the cursor when none are stored.
insertText(d, s, stored) ==
  Let(IF stored # Null THEN stored[1] ELSE marksAt(d, s.pos), LAMBDA v :
    Marked([d EXCEPT !.content = typeFragment(d.content, 0, s.pos, v)],
           TextSel(s.pos + 1), TRUE, Null, d))

ApplyMark(o, name, a) ==
  \E r \in {o} :
    /\ doc' = r.doc
    /\ sel' = r.sel
    /\ ret' = r.ret
    /\ changed' = r.changed
    /\ storedMarks' = r.stored
    /\ op' = name
    /\ arg' = a
    /\ thrown' = FALSE
    /\ UNCHANGED <<resize, drags, drops, html, hostVars>>

SetTextSize ==
  \E size \in CommandSizes :
    ApplyMark(setTextSize(doc, sel, storedMarks, size), "setTextSize", size)

UnsetTextSize == ApplyMark(unsetTextSize(doc, sel, storedMarks), "unsetTextSize", "")

SidebarSetTextSize ==
  \E size \in SidebarSizes :
    ApplyMark(Sidebar_setTextSize(doc, sel, storedMarks, size), "Sidebar.setTextSize", size)

InsertText ==
  /\ sel.kind = "text"
  /\ parentOf(from(doc, sel)).type = "paragraph"
  /\ parentOf(from(doc, sel)).text < MaxText
  /\ ApplyMark(insertText(doc, sel, storedMarks), "insertText", "")

(***************************************************************************)
(* Serialization to HTML and parsing from HTML.                             *)
(*                                                                          *)
(* An element is [tag, attributes, style, children, text]: attributes maps  *)
(* the names of the attributes that are present to their text, style is the *)
(* sequence of declarations of the style attribute.  A text is NumText(n)   *)
(* for String(n), PxText(n) for `${n}px`, PctText(w) for a width string and *)
(* Chars(s) for any other string.  HTML attribute names are                 *)
(* case-insensitive, so an attribute keeps the name it was rendered under.  *)
(***************************************************************************)
NumText(n) == [num |-> n, unit |-> ""]

PxText(n) == [num |-> n, unit |-> "px"]

PctText(w) == [num |-> w, unit |-> "%"]

Chars(s) == [chars |-> s]

Decl(prop, value) == [prop |-> prop, value |-> value]

\* `${a}px ${b}px ${c}px ${d}px`, the four values of a shorthand.
Sides(a, b, c, d) ==
  [top |-> PxText(a), right |-> PxText(b), bottom |-> PxText(c), left |-> PxText(d)]

Element(tag, attributes, style, children, text) ==
  [tag |-> tag, attributes |-> attributes, style |-> style, children |-> children,
   text |-> text]

ColorKeys == {"backgroundColor", "borderColor"}

\* The types BlockStyle is configured for in createExtensions.
blockStyleTypes == {"paragraph", "heading", "divBlock", "blockquote"}

\* v ?? 0
orZero(v) == IF v = Null THEN 0 ELSE v[1]

\* A string attribute that is neither null nor the empty string.
isSet(v) == v # Null /\ v[1] # ""

\* One shorthand of four lengths: emitted when one of them is not 0.
fourSides(prop, a, b, c, d) ==
  IF a # 0 \/ b # 0 \/ c # 0 \/ d # 0 THEN << Decl(prop, Sides(a, b, c, d)) >> ELSE << >>

\* The style resolver with the border colour emitted on its own.
buildBlockStyleString_ColorAlways(attrs) ==
  (IF isSet(attrs.backgroundColor) /\ attrs.backgroundColor # Some("transparent")
     THEN << Decl("background-color", Chars(attrs.backgroundColor[1])) >> ELSE << >>)
  \o (IF fourSides("border-width", orZero(attrs.borderTopWidth),
                   orZero(attrs.borderRightWidth), orZero(attrs.borderBottomWidth),
                   orZero(attrs.borderLeftWidth)) # << >>
        THEN << Decl("border-style", Chars("solid")) >> ELSE << >>)
  \o fourSides("border-width", orZero(attrs.borderTopWidth),
               orZero(attrs.borderRightWidth), orZero(attrs.borderBottomWidth),
               orZero(attrs.borderLeftWidth))
  \o (IF isSet(attrs.borderColor)
        THEN << Decl("border-color", Chars(attrs.borderColor[1])) >> ELSE << >>)
  \o fourSides("border-radius", orZero(attrs.borderTopLeftRadius),
               orZero(attrs.borderTopRightRadius), orZero(attrs.borderBottomRightRadius),
               orZero(attrs.borderBottomLeftRadius))
  \o fourSides("padding", orZero(attrs.paddingTop), orZero(attrs.paddingRight),
               orZero(attrs.paddingBottom), orZero(attrs.paddingLeft))

\* The style resolver (buildBorderStyle / buildBlockStyleString).
buildBlockStyleString(attrs) ==
  (IF isSet(attrs.backgroundColor) /\ attrs.backgroundColor # Some("transparent")
     THEN << Decl("background-color", Chars(attrs.backgroundColor[1])) >> ELSE << >>)
  \o Let(fourSides("border-width", orZero(attrs.borderTopWidth),
                   orZero(attrs.borderRightWidth), orZero(attrs.borderBottomWidth),
                   orZero(attrs.borderLeftWidth)),
         LAMBDA widths :
           IF widths = << >>
             THEN << >>
             ELSE << Decl("border-style", Chars("solid")) >> \o widths
                    \o (IF isSet(attrs.borderColor)
                          THEN << Decl("border-color", Chars(attrs.borderColor[1])) >>
                          ELSE << >>))
  \o fourSides("border-radius", orZero(attrs.borderTopLeftRadius),
               orZero(attrs.borderTopRightRadius), orZero(attrs.borderBottomRightRadius),
               orZero(attrs.borderBottomLeftRadius))
  \o fourSides("padding", orZero(attrs.paddingTop), orZero(attrs.paddingRight),
               orZero(attrs.paddingBottom), orZero(attrs.paddingLeft))

\* An attribute that declares no renderHTML never reaching the element.
ownAttributes_NotRendered(attrs) == << >>

\* getRenderedAttributes for the style attributes a node declares itself
\* with { default: null }: each is rendered as an HTML attribute of its own
\* name; the serializer skips the null ones.
ownAttributes(attrs) ==
  [k \in {k \in StyleKeys : attrs[k] # Null} |->
     IF k \in ColorKeys THEN Chars(attrs[k][1]) ELSE NumText(attrs[k][1])]

\* blockStyleCSS.renderHTML: the style the BlockStyle extension adds.
globalStyle(type, attrs) ==
  IF type \in blockStyleTypes THEN buildBlockStyleString(attrs) ELSE << >>

RECURSIVE renderHTML(_)
\* The elements of a sequence of nodes.
renderAll(nodes) == [i \in 1..Len(nodes) |-> renderHTML(nodes[i])]

\* Column.renderHTML: the content slot and the resize handle.
columnChildren(children) ==
  << Element("div", ("class" :> Chars("column-content")), << >>, children, 0),
     Element("div", ("class" :> Chars("column-resize-handle"))
                      @@ ("contenteditable" :> Chars("false")), << >>, << >>, 0) >>

\* Column.renderHTML without the data-width attribute.
columnMarkers_NoWidth(attrs) == ("data-type" :> Chars("column"))

\* Column.renderHTML: data-type, and data-width when width is truthy.
columnMarkers(attrs) ==
  IF attrs.width # Null
    THEN ("data-type" :> Chars("column")) @@ ("data-width" :> PctText(attrs.width[1]))
    ELSE ("data-type" :> Chars("column"))

\* TextSize.renderHTML of n characters that carry the mark v: a span with
\* the font-size of the size, or the bare text when they carry no mark.
renderMark(v, n) ==
  IF v = Null THEN Element("#text", << >>, << >>, << >>, n)
  ELSE Element("span", << >>,
               IF v[1] = "" THEN << >>
               ELSE << Decl("font-size",
                            Chars(IF v[1] \in DOMAIN sizes THEN sizes[v[1]] ELSE v[1])) >>,
               << >>, n)

RECURSIVE runLength(_)
\* The number of leading characters that carry the same mark.
runLength(marks) ==
  IF Len(marks) >= 2 /\ marks[2] = marks[1] THEN 1 + runLength(Tail(marks)) ELSE 1

RECURSIVE inlineRuns(_)
\* The inline content of a textblock: one element for each run of characters
\* with the same mark.
inlineRuns(marks) ==
  IF marks = << >> THEN << >>
  ELSE Let(runLength(marks), LAMBDA n :
         << renderMark(marks[1], n) >> \o inlineRuns(SubSeq(marks, n + 1, Len(marks))))

\* renderHTML of a node, with the attributes Tiptap merges into it.
renderHTML(node) ==
  Let(renderAll(node.content), LAMBDA children :
    CASE node.type = "divBlock" ->
           Element("div",
                   ("data-type" :> Chars("div-block")) @@ ("class" :> Chars("editor-div-block"))
                     @@ ownAttributes(node.attrs),
                   globalStyle(node.type, node.attrs) \o buildBlockStyleString(node.attrs),
                   children, 0)
      [] node.type = "column" ->
           Element("div",
                   columnMarkers(node.attrs) @@ ("class" :> Chars("editor-column"))
                     @@ ownAttributes(node.attrs),
                   (IF node.attrs.width # Null
                      THEN << Decl("--column-width", PctText(node.attrs.width[1])) >>
                      ELSE << >>) \o buildBlockStyleString(node.attrs),
                   columnChildren(children), 0)
      [] node.type = "columnLayout" ->
           Element("div",
                   ("data-type" :> Chars("column-layout"))
                     @@ ("data-columns" :> NumText(node.attrs.columns[1]))
                     @@ ("class" :> Chars("editor-column-layout"))
                     @@ ownAttributes(node.attrs),
                   buildBlockStyleString(node.attrs), children, 0)
      [] node.type = "paragraph" ->
           Element("p", << >>, globalStyle(node.type, node.attrs), inlineRuns(node.marks),
                   node.text)
      [] OTHER -> Element(node.type, << >>, << >>, children, node.text))

\* editor.getHTML()
toHTML(d) == renderAll(d.content)

\* element.getAttribute(name)
getAttribute(el, name) ==
  IF name \in DOMAIN el.attributes THEN Some(el.attributes[name]) ELSE Null

\* Tiptap fromString: a string of digits becomes a number, any other string
\* stays a string; null stays null.
fromString(v) ==
  IF v = Null THEN Null
  ELSE IF "num" \in DOMAIN v[1] /\ v[1].unit = "" THEN Some(v[1].num)
  ELSE IF "chars" \in DOMAIN v[1] THEN Some(v[1].chars)
  ELSE v

\* The colour a style declaration reads back as: the CSS object model
\* serializes a hexadecimal colour in its rgb() form.
cssColor(c) ==
  CASE c = "#00ff00" -> "rgb(0, 255, 0)"
    [] c = "#ff0000" -> "rgb(255, 0, 0)"
    [] OTHER -> c

\* The shorthand that carries a style attribute, and its place in it.
styleProp(k) ==
  CASE k = "backgroundColor" -> "background-color"
    [] k = "borderColor" -> "border-color"
    [] k \in {"borderTopWidth", "borderRightWidth", "borderBottomWidth",
              "borderLeftWidth"} -> "border-width"
    [] k \in {"borderTopLeftRadius", "borderTopRightRadius", "borderBottomRightRadius",
              "borderBottomLeftRadius"} -> "border-radius"
    [] OTHER -> "padding"

styleSide(k) ==
  CASE k \in {"borderTopWidth", "borderTopLeftRadius", "paddingTop"} -> "top"
    [] k \in {"borderRightWidth", "borderTopRightRadius", "paddingRight"} -> "right"
    [] k \in {"borderBottomWidth", "borderBottomRightRadius", "paddingBottom"} -> "bottom"
    [] OTHER -> "left"

\* element.style[k]: the value of the last declaration that sets it, Null
\* (the empty string) when none does.
elementStyle(el, k) ==
  Let({i \in 1..Len(el.style) : el.style[i].prop = styleProp(k)}, LAMBDA is :
    IF is = {} THEN Null
    ELSE IF k \in ColorKeys THEN Some(Chars(cssColor(el.style[Max(is)].value.chars)))
    ELSE Some(el.style[Max(is)].value[styleSide(k)]))

\* parseStyleValue: parseFloat of the value, undefined for the empty string.
parseStyleValue(value) == IF value = Null THEN Null ELSE Some(value[1].num)

\* parseHTML of a BlockStyle global attribute.
parseGlobal(el, k) ==
  IF k \in ColorKeys
    THEN fromString(elementStyle(el, k))
    ELSE parseStyleValue(elementStyle(el, k))

\* The node type of the parse rule that matches an element; "none" for a
\* div that carries no known data-type.
ruleFor(el) ==
  IF el.tag = "div"
    THEN CASE getAttribute(el, "data-type") = Some(Chars("div-block")) -> "divBlock"
           [] getAttribute(el, "data-type") = Some(Chars("column")) -> "column"
           [] getAttribute(el, "data-type") = Some(Chars("column-layout")) -> "columnLayout"
           [] OTHER -> "none"
    ELSE IF el.tag = "p" THEN "paragraph" ELSE el.tag

\* One attribute of a parsed node (injectExtensionAttributesToParseRule): the
\* global attribute is parsed first, the node's own attribute after it, and a
\* value that is not null replaces the one before it.
parseAttr(type, el, k) ==
  CASE k = "columns" ->
         IF getAttribute(el, "data-columns") = Null
           THEN Some(2) ELSE Some(getAttribute(el, "data-columns")[1].num)
    [] k = "width" ->
         IF getAttribute(el, "data-width") = Null
           THEN Null ELSE Some(getAttribute(el, "data-width")[1].num)
    [] OTHER ->
         Let(IF type \in containerTypes THEN fromString(getAttribute(el, k)) ELSE Null,
             LAMBDA own :
               IF own # Null THEN own
               ELSE IF type \in blockStyleTypes THEN parseGlobal(el, k)
               ELSE Null)

\* TextSize.parseHTML of a span: the rule matches a span with a font-size
\* and names the size that has this value; the parseHTML of the attribute
\* `size` is applied after it and its value, element.style.fontSize, replaces
\* the one of the rule unless it is empty.
parseTextSize(el) ==
  Let({i \in 1..Len(el.style) : el.style[i].prop = "font-size"}, LAMBDA found :
    IF el.tag # "span" \/ found = {} THEN Null
    ELSE Let(el.style[Max(found)].value.chars, LAMBDA fontSize :
         Let(IF \E name \in DOMAIN sizes : sizes[name] = fontSize
               THEN CHOOSE name \in DOMAIN sizes : sizes[name] = fontSize
               ELSE fontSize,
             LAMBDA ruleSize :
           Some(IF fontSize = "" THEN ruleSize ELSE fontSize))))

RECURSIVE parseInline(_)
\* The marks of the characters of a textblock, from its inline content.
parseInline(els) ==
  IF els = << >> THEN << >>
  ELSE [i \in 1..Head(els).text |-> parseTextSize(Head(els))] \o parseInline(Tail(els))

RECURSIVE parseAll(_)
\* The nodes an element parses to: the node of its rule, or, for a div
\* without a rule, the nodes of its children.
parseElement(el) ==
  Let(ruleFor(el), LAMBDA type :
  Let(IF type = "paragraph" THEN << >> ELSE parseAll(el.children), LAMBDA kids :
    IF type = "none"
      THEN kids
      ELSE << [type |-> type,
               attrs |-> [k \in DOMAIN DefaultAttrs(type) |->
                            Let(parseAttr(type, el, k), LAMBDA v :
                              IF v = Null THEN DefaultAttrs(type)[k] ELSE v)],
               content |-> kids,
               text |-> el.text,
               marks |-> IF type = "paragraph" THEN parseInline(el.children) ELSE << >>] >>))

parseAll(els) ==
  IF els = << >> THEN << >> ELSE parseElement(Head(els)) \o parseAll(Tail(els))

\* setContent(html): the document parsed from the HTML.
fromHTML(h) == Doc(parseAll(h))

\* editor.getHTML(), as published to the host.
GetHTML ==
  /\ html' = toHTML(doc)
  /\ op' = "getHTML"
  /\ arg' = << >>
  /\ ret' = TRUE
  /\ changed' = FALSE
  /\ thrown' = FALSE
  /\ UNCHANGED <<doc, sel, resize, drags, drops, storedMarks, hostVars>>

\* editor.commands.setContent(html) with HTML the editor produced.
SetContent ==
  /\ html # << >>
  /\ \E d \in {fromHTML(html)} :
       /\ doc' = d
       /\ sel' = near(d, contentSize(d), -1)
  /\ op' = "setContent"
  /\ arg' = << >>
  /\ ret' = TRUE
  /\ changed' = (doc' # doc)
  /\ thrown' = FALSE
  /\ storedMarks' = Null
  /\ UNCHANGED <<html, resize, drags, drops, hostVars>>

\* The host action clear_content (ActionHandler.handleClearContent,
\* editor.clearContent()): the document becomes one empty paragraph.
ClearContent ==
  /\ \E d \in {Doc(<< Paragraph(0) >>)} :
       /\ doc' = d
       /\ sel' = near(d, contentSize(d), -1)
  /\ op' = "clearContent"
  /\ arg' = << >>
  /\ ret' = TRUE
  /\ changed' = TRUE
  /\ thrown' = FALSE
  /\ storedMarks' = Null
  /\ UNCHANGED <<html, resize, drags, drops, hostVars>>

(***************************************************************************)
(* Pointer clicks (blockSelection plugin of BlockStyle).  The view shows    *)
(* the document as renderHTML draws it.  A click lands on one element:      *)
(* part "node" is the outer element of the node at `inside`, "slot" the     *)
(* content slot of a column and "handle" its resize handle.                 *)
(***************************************************************************)
Pointer(inside, part) == [inside |-> inside, part |-> part]

Pointers(d) ==
  {Pointer(q, "node") : q \in {r \in 0..(contentSize(d) - 1) : isSelectable(nodeAt(d, r))}}
    \cup {Pointer(q, part) : q \in nodePositions(d, {"column"}), part \in {"slot", "handle"}}

\* The elements drawn for node n at position q from the clicked part
\* outwards, each with the position of the node it belongs to.
ownElements(n, q, part) ==
  Let(renderHTML(n), LAMBDA el :
    CASE part = "slot" -> << [el |-> el.children[1], pos |-> q], [el |-> el, pos |-> q] >>
      [] part = "handle" -> << [el |-> el.children[2], pos |-> q], [el |-> el, pos |-> q] >>
      [] OTHER -> << [el |-> el, pos |-> q] >>)

RECURSIVE ancestorElements(_, _)
\* The elements around a node, innermost first: a child of a column lies in
\* the column's content slot.
ancestorElements(rp, k) ==
  IF k = 0 THEN << >>
  ELSE ownElements(nodeAtDepth(rp, k), beforeOf(rp, k),
                   IF nodeAtDepth(rp, k).type = "column" THEN "slot" ELSE "node")
         \o ancestorElements(rp, k - 1)

\* event.target followed by its ancestors in the view.
eventPath(d, click) ==
  Let(resolve(d, click.inside), LAMBDA rp :
    ownElements(nodeAt(d, click.inside), click.inside, click.part)
      \o ancestorElements(rp, depthOf(rp)))

\* target.classList.contains(c)
classListContains(el, c) == getAttribute(el, "class") = Some(Chars(c))

\* target.closest('[data-type="column-layout"], [data-type="column"], [data-type="div-block"]')
closest(path) ==
  Let({i \in 1..Len(path) :
         getAttribute(path[i].el, "data-type") \in
           {Some(Chars("column-layout")), Some(Chars("column")), Some(Chars("div-block"))}},
      LAMBDA found : IF found = {} THEN Null ELSE Some(path[Min(found)]))

\* view.posAtDOM(domNode, 0): the start of the content of the node drawn by domNode.
posAtDOM(entry) == entry.pos + 1

Handled(s) == [handled |-> TRUE, sel |-> s]

NotHandled == [handled |-> FALSE, sel |-> NoSel]

\* handleClickOn(view, pos, node, nodePos, event, direct)
handleClickOn(d, path, node, nodePos, direct) ==
  Let(\E c \in {"editor-column-layout", "editor-column", "editor-div-block", "column-content"} :
        classListContains(path[1].el, c),
      LAMBDA isContainerClick :
    IF ~isContainerClick /\ direct /\ node.type \in containerTypes
      THEN Handled(NodeSel(nodePos))
      ELSE IF isContainerClick
        THEN Let(closest(path), LAMBDA domNode :
               IF domNode = Null THEN NotHandled
               ELSE Let(posAtDOM(domNode[1]) - 1, LAMBDA containerPos :
                      IF nodeAt(d, containerPos).type \in containerTypes
                        THEN Handled(NodeSel(containerPos))
                        ELSE NotHandled))
        ELSE NotHandled)

\* A single click (prosemirror-view runHandlerOnContext): handleClickOn is
\* called for the clicked node (direct) and then for each node around it, from
\* the inside out, until one call handles the click; a click no call handles
\* leaves the cursor where the pointer is.
handleSingleClick(d, s, click) ==
  Let(resolve(d, click.inside), LAMBDA rp :
  Let(eventPath(d, click), LAMBDA path :
  Let([i \in 1..(depthOf(rp) + 1) |->
         IF i > depthOf(rp)
           THEN handleClickOn(d, path, nodeAt(d, click.inside), click.inside, TRUE)
           ELSE handleClickOn(d, path, nodeAtDepth(rp, i), beforeOf(rp, i), FALSE)],
      LAMBDA calls :
  Let({i \in DOMAIN calls : calls[i].handled}, LAMBDA handled :
    IF handled # {}
      THEN Outcome(d, calls[Max(handled)].sel, TRUE, FALSE)
      ELSE Outcome(d, near(d, click.inside + 1, 1), FALSE, FALSE)))))

Click ==
  \E click \in Pointers(doc) :
    \E o \in {handleSingleClick(doc, sel, click)} :
      /\ sel' = o.sel
      /\ ret' = o.ret
      /\ changed' = FALSE
      /\ op' = "click"
      /\ arg' = click
      /\ thrown' = FALSE
      /\ storedMarks' = Null
      /\ UNCHANGED <<doc, resize, drags, drops, html, hostVars>>

(***************************************************************************)
(* Documents the editor starts from.                                        *)
(***************************************************************************)
TwoColumnsDoc ==
  Doc(<< Paragraph(1),
         ColumnLayout(2, << Column(<< Paragraph(0) >>), Column(<< Paragraph(1) >>) >>),
         Paragraph(0) >>)

OneColumnDoc ==
  Doc(<< ColumnLayout(1, << Column(<< Paragraph(1), DivBlock(<< Paragraph(0) >>) >>) >>) >>)

NestedDoc ==
  Doc(<< ColumnLayout(2, << Column(<< DivBlock(<< Paragraph(1) >>) >>),
                            Column(<< ColumnLayout(1, << Column(<< Paragraph(0) >>) >>) >>) >>) >>)

\* A layout of two columns inside the first column of another layout.
NestedColumnsDoc ==
  Doc(<< ColumnLayout(2, << Column(<< ColumnLayout(2, EmptyColumns(2)) >>),
                            Column(<< Paragraph(0) >>) >>) >>)

PlainDoc ==
  Doc(<< Paragraph(1), HorizontalRule, DivBlock(<< Paragraph(0) >>) >>)

\* A layout whose first column carries a width and styles of its own.
StyledColumn(kids) ==
  [type |-> "column",
   attrs |-> ComputeAttrs("column", [width |-> Some(400), backgroundColor |-> Some("#00ff00"),
                                     borderTopWidth |-> Some(2)]),
   content |-> kids, text |-> 0, marks |-> << >>]

StyledDoc ==
  Doc(<< ColumnLayout(2, << StyledColumn(<< DivBlock(<< Paragraph(1) >>) >>),
                            Column(<< Paragraph(0) >>) >>),
         Paragraph(0) >>)

(***************************************************************************)
(* The event bridge (EventBridge) and the timers of the host page.  host    *)
(* holds the clock in milliseconds, the timers setTimeout has scheduled     *)
(* and that have neither fired nor been cleared, the id of the next timer,  *)
(* and the log of the calls of triggerDebounced and of the events the host  *)
(* received.  eventBridge.debounceTimers maps an event name to the id of    *)
(* its timer, 0 when the map has no entry for the name.                     *)
(***************************************************************************)
\* Event names of the host.
EventNames == {"content_changed", "editor_focused"}

\* The default delay of triggerDebounced, in milliseconds.
debounceDelay == 300

\* The step of the clock, the last instant of the clock and the number of
\* timers a behaviour schedules.
TickMs == 100

MaxClock == 800

MaxTimers == 3

EventBridgeInit == [debounceTimers |-> [n \in EventNames |-> 0]]

HostInit == [clock |-> 0, timers |-> {}, nextId |-> 1, log |-> << >>]

\* clearTimeout(id): the timer with this id is no longer scheduled.
clearTimeout(h, id) == [h EXCEPT !.timers = {x \in h.timers : x.id # id}]

\* setTimeout(callback, delay), the callback delivering the event name with
\* data; the id of the timer is h.nextId.
setTimeout(h, name, data, delay) ==
  [h EXCEPT !.timers = @ \cup {[id |-> h.nextId, name |-> name, data |-> data,
                                due |-> h.clock + delay]},
            !.nextId = @ + 1]

\* The log entry of a call or of an event.
Entry(kind, name, data, at) == [kind |-> kind, name |-> name, data |-> data, at |-> at]

\* triggerDebounced without clearing the timer of the name.
triggerDebounced_NoClear(eb, h, name, data, delay) ==
  [eventBridge |-> [eb EXCEPT !.debounceTimers[name] = h.nextId],
   host |-> [setTimeout(h, name, data, delay)
               EXCEPT !.log = Append(@, Entry("trigger", name, data, h.clock))]]

\* EventBridge.triggerDebounced(name, data, delay).
triggerDebounced(eb, h, name, data, delay) ==
  Let(eb.debounceTimers[name], LAMBDA existingTimer :
    Let(IF existingTimer # 0 THEN clearTimeout(h, existingTimer) ELSE h, LAMBDA h1 :
      [eventBridge |-> [eb EXCEPT !.debounceTimers[name] = h1.nextId],
       host |-> [setTimeout(h1, name, data, delay)
                   EXCEPT !.log = Append(@, Entry("trigger", name, data, h.clock))]]))

\* EventBridge.cancelPending(name).
cancelPending(eb, h, name) ==
  Let(eb.debounceTimers[name], LAMBDA timer :
    IF timer # 0
      THEN [eventBridge |-> [eb EXCEPT !.debounceTimers[name] = 0],
            host |-> clearTimeout(h, timer)]
      ELSE [eventBridge |-> eb, host |-> h])

\* cancelAllPending that empties the map and clears no timer.
cancelAllPending_NoClear(eb, h) ==
  [eventBridge |-> [eb EXCEPT !.debounceTimers = [n \in EventNames |-> 0]],
   host |-> h]

\* EventBridge.cancelAllPending(): every timer of the map is cleared and the
\* map is emptied.
cancelAllPending(eb, h) ==
  [eventBridge |-> [eb EXCEPT !.debounceTimers = [n \in EventNames |-> 0]],
   host |-> [h EXCEPT !.timers =
               {x \in h.timers : \A n \in EventNames : eb.debounceTimers[n] # x.id}]]

\* The callback of a timer: the host receives the event, and the entry of
\* the name is deleted from the map.
timerCallback(eb, h, timer) ==
  [eventBridge |-> [eb EXCEPT !.debounceTimers[timer.name] = 0],
   host |-> [h EXCEPT !.timers = @ \ {timer},
                      !.log = Append(@, Entry("event", timer.name, timer.data, h.clock))]]

\* editor.isEmpty: the document is one empty paragraph.
isEmpty(d) == d.content = << Paragraph(0) >>

\* The data handleEditorUpdate sends with content_changed.
contentChanged(d) == Some([html |-> toHTML(d), isEmpty |-> isEmpty(d)])

(***************************************************************************)
(* The element (BubbleElement) and the scripts of the plugin.  element      *)
(* holds what BubbleElement shows: whether the toolbar and the sidebar are  *)
(* displayed, sidebarExpanded and whether the editor is editable.           *)
(* instance holds instance.data of the plugin: _initialized,                *)
(* _currentProperties (Null for the object without keys), whether           *)
(* _propertyChangeCallback is set, and calls, the changes the callback was  *)
(* invoked with.  A property the host leaves out is Null.  updates counts   *)
(* the runs of the update script.                                           *)
(***************************************************************************)
\* The plugin instance before any script ran.
InstanceInit ==
  [initialized |-> FALSE, currentProperties |-> Null, callback |-> FALSE, calls |-> << >>,
   updates |-> 0]

\* The element before BubbleElement.initialize.
ElementInit ==
  [initialized |-> FALSE, destroyed |-> FALSE, toolbarShown |-> FALSE,
   sidebarShown |-> FALSE, sidebarExpanded |-> FALSE, editable |-> FALSE]

\* The values the host sends for a boolean property.
PropertyValues == {Null, Some(TRUE), Some(FALSE)}

\* The properties of an update call.
Properties == [editable : PropertyValues, toolbar_visible : PropertyValues]

\* The update script's mapping of the host's properties, with defaults:
\* editable and toolbar_visible are true unless the host sends false.
allProperties(properties) ==
  [editable |-> properties.editable # Some(FALSE),
   toolbar_visible |-> properties.toolbar_visible # Some(FALSE)]

\* bubbleApi.getProperties()[key]: Null when _currentProperties has no keys.
getProperty(inst, key) ==
  IF inst.currentProperties = Null THEN Null ELSE Some(inst.currentProperties[1][key])

\* The changes the scripts pass to the callback.
changesOf(props) ==
  [editable |-> Some(props.editable), toolbar_visible |-> Some(props.toolbar_visible)]

\* BubbleElement.handlePropertyChanges.
handlePropertyChanges(el, changes) ==
  IF ~el.initialized \/ el.destroyed
    THEN el
    ELSE [el EXCEPT
            !.editable = IF changes.editable # Null THEN changes.editable[1] ELSE @,
            !.toolbarShown =
               IF changes.toolbar_visible # Null THEN changes.toolbar_visible[1] ELSE @]

\* BubbleElement.initialize with the properties the bridge returns: the
\* editor is editable unless editable is false, the toolbar is hidden
\* unless toolbar_visible is true, the sidebar is hidden.
initialize(el, inst) ==
  [el EXCEPT !.initialized = TRUE,
             !.editable = getProperty(inst, "editable") # Some(FALSE),
             !.toolbarShown = getProperty(inst, "toolbar_visible") = Some(TRUE),
             !.sidebarShown = FALSE]

\* The callback registered with onPropertyChange is invoked with changes.
invokeCallback(inst, el, changes) ==
  [instance |-> [inst EXCEPT !.calls = Append(@, changes)],
   element |-> handlePropertyChanges(el, changes)]

\* The initialize script of the plugin: _currentProperties is set to the
\* object without keys, the element is created and initialized, and the
\* properties are applied if _currentProperties has keys.
pluginInitialize(inst, el) ==
  Let([inst EXCEPT !.currentProperties = Null], LAMBDA i1 :
    Let(initialize(el, i1), LAMBDA e1 :
      Let([i1 EXCEPT !.callback = TRUE, !.initialized = TRUE], LAMBDA i2 :
        IF i2.currentProperties # Null /\ i2.callback
          THEN invokeCallback(i2, e1, changesOf(i2.currentProperties[1]))
          ELSE [instance |-> i2, element |-> e1])))

\* The update script of the plugin.
pluginUpdate(inst, el, properties) ==
  Let([inst EXCEPT !.currentProperties = Some(allProperties(properties))], LAMBDA i1 :
    IF ~i1.initialized \/ ~i1.callback
      THEN [instance |-> i1, element |-> el]
      ELSE invokeCallback(i1, el, changesOf(i1.currentProperties[1])))

\* BubbleElement.toggleSidebar.
toggleSidebar(el) ==
  Let(~el.sidebarExpanded, LAMBDA expanded :
    [el EXCEPT !.sidebarExpanded = expanded,
               !.sidebarShown = IF el.initialized THEN expanded ELSE @,
               !.toolbarShown = IF el.initialized /\ ~el.destroyed THEN ~expanded ELSE @])

\* BubbleElement.setSidebarExpanded.
setSidebarExpanded(el, expanded) ==
  IF el.sidebarExpanded # expanded THEN toggleSidebar(el) ELSE el

\* The number of update calls of a behaviour.
MaxUpdates == 3

\* A step of the plugin or of the element.
ElementStep(name, argument) ==
  /\ op' = name
  /\ arg' = argument
  /\ ret' = TRUE
  /\ changed' = FALSE
  /\ thrown' = FALSE
  /\ UNCHANGED <<editorVars, indicator, eventBridge, host, email>>

\* The host runs the initialize script, once.
PluginInitialize ==
  /\ ~element.initialized
  /\ \E o \in {pluginInitialize(instance, element)} :
       /\ instance' = o.instance
       /\ element' = o.element
  /\ ElementStep("initialize", << >>)

\* The host runs the update script with its properties.
PluginUpdate ==
  /\ instance.updates < MaxUpdates
  /\ \E properties \in Properties :
       /\ \E o \in {pluginUpdate(instance, element, properties)} :
            /\ instance' = [o.instance EXCEPT !.updates = @ + 1]
            /\ element' = o.element
       /\ ElementStep("update", properties)

\* The toolbar button or the sidebar's collapse button.
ToggleSidebar ==
  /\ element' = toggleSidebar(element)
  /\ UNCHANGED instance
  /\ ElementStep("toggleSidebar", << >>)

SetSidebarExpanded ==
  /\ \E expanded \in BOOLEAN :
       /\ element' = setSidebarExpanded(element, expanded)
       /\ ElementStep("setSidebarExpanded", [expanded |-> expanded])
  /\ UNCHANGED instance

\* A step of the bridge: the new bridge and host state.
BridgeStep(o, name, argument) ==
  /\ eventBridge' = o.eventBridge
  /\ host' = o.host
  /\ op' = name
  /\ arg' = argument
  /\ ret' = TRUE
  /\ changed' = FALSE
  /\ thrown' = FALSE

\* A timer can be scheduled: the clock still reaches its due time.
CanSchedule(delay) ==
  /\ host.nextId <= MaxTimers
  /\ host.clock + delay <= MaxClock

\* BubbleElement.handleEditorUpdate, the onUpdate callback of the editor:
\* the states are published and content_changed is triggered, debounced.
HandleEditorUpdate ==
  /\ element.initialized /\ ~element.destroyed
  /\ CanSchedule(debounceDelay)
  /\ \E o \in {triggerDebounced(eventBridge, host, "content_changed",
                                contentChanged(doc), debounceDelay)} :
       BridgeStep(o, "handleEditorUpdate", << >>)
  /\ html' = toHTML(doc)
  /\ UNCHANGED <<doc, sel, resize, drags, drops, storedMarks, indicator, instance, element, email>>

\* EventBridge.triggerDebounced called for another event, without data.
TriggerDebounced ==
  /\ CanSchedule(debounceDelay)
  /\ \E name \in EventNames \ {"content_changed"} :
       \E o \in {triggerDebounced(eventBridge, host, name, Null, debounceDelay)} :
         BridgeStep(o, "triggerDebounced", [name |-> name])
  /\ UNCHANGED <<editorVars, indicator, instance, element, email>>

CancelPending ==
  /\ \E name \in EventNames :
       \E o \in {cancelPending(eventBridge, host, name)} :
         BridgeStep(o, "cancelPending", [name |-> name])
  /\ UNCHANGED <<editorVars, indicator, instance, element, email>>

CancelAllPending ==
  /\ \E o \in {cancelAllPending(eventBridge, host)} :
       BridgeStep(o, "cancelAllPending", << >>)
  /\ UNCHANGED <<editorVars, indicator, instance, element, email>>

\* BubbleElement.destroy(): the bridge is destroyed (EventBridge.destroy
\* calls cancelAllPending), then the toolbar, the sidebar and the editor.
Destroy ==
  /\ ~element.destroyed
  /\ \E o \in {cancelAllPending(eventBridge, host)} :
       BridgeStep(o, "destroy", << >>)
  /\ element' = [element EXCEPT !.destroyed = TRUE]
  /\ instance' = [instance EXCEPT !.callback = FALSE]
  /\ UNCHANGED <<editorVars, indicator, email>>

\* The due times of the scheduled timers.
dueTimes == {x.due : x \in host.timers}

\* Time passes, by a step of the clock or up to the next due time.  A timer
\* fires when it is due: the clock does not pass a due time.
Tick ==
  /\ host.clock < MaxClock
  /\ \E step \in {TickMs} \cup {due - host.clock : due \in dueTimes} :
       /\ step > 0
       /\ host.clock + step <= MaxClock
       /\ \A due \in dueTimes : host.clock + step <= due
       /\ host' = [host EXCEPT !.clock = @ + step]
       /\ arg' = [step |-> step]
  /\ op' = "tick"
  /\ ret' = TRUE
  /\ changed' = FALSE
  /\ thrown' = FALSE
  /\ UNCHANGED <<editorVars, indicator, eventBridge, instance, element, email>>

\* A timer that is due fires.
Timeout ==
  /\ \E timer \in host.timers :
       /\ timer.due <= host.clock
       /\ \E o \in {timerCallback(eventBridge, host, timer)} :
            BridgeStep(o, "timeout", [id |-> timer.id, name |-> timer.name])
  /\ UNCHANGED <<editorVars, indicator, instance, element, email>>

InitEditor(docs) ==
  /\ doc \in docs
  /\ sel \in Selections(doc)
  /\ resize = ResizeInit
  /\ op = "init"
  /\ arg = <<>>
  /\ ret = TRUE
  /\ changed = FALSE
  /\ drags = 0
  /\ drops = 0
  /\ thrown = FALSE
  /\ html = << >>
  /\ storedMarks = Null

\* The state around the editor before the plugin's initialize script ran.
InitHost ==
  /\ indicator = IndicatorInit
  /\ eventBridge = EventBridgeInit
  /\ host = HostInit
  /\ instance = InstanceInit
  /\ element = ElementInit
  /\ email = << >>

InitWith(docs) == InitEditor(docs) /\ InitHost

\* The text size commands, typing and the HTML round trip on one paragraph.
TextDoc == Doc(<< Paragraph(1) >>)

InitTextSize == InitWith({TextDoc})

NextTextSize ==
  \/ SetSelection
  \/ SetTextSize
  \/ UnsetTextSize
  \/ SidebarSetTextSize
  \/ InsertText
  \/ GetHTML
  \/ SetContent

SpecTextSize == InitTextSize /\ [][NextTextSize]_vars

\* Sequences of addColumn / removeColumn with the cursor moved in between.
InitColumns == InitWith({TwoColumnsDoc, OneColumnDoc})

NextColumns == SetSelection \/ AddColumn \/ RemoveColumn

SpecColumns == InitColumns /\ [][NextColumns]_vars

\* The column commands on a layout nested in a column of another layout.
InitNested == InitWith({NestedColumnsDoc})

NextNested == SetSelection \/ RemoveColumn

SpecNested == InitNested /\ [][NextNested]_vars

\* The container style commands on a document of nested containers.
InitStyle == InitWith({StyledDoc})

NextStyle == SetSelection \/ SetParentContainerStyle \/ SelectParentContainer \/ Click

SpecStyle == InitStyle /\ [][NextStyle]_vars

\* Resize drags on layouts of two, three and seven columns.
HalvesDoc ==
  Doc(<< ColumnLayout(2, << ColumnW(Some(500), << Paragraph(0) >>),
                            ColumnW(Some(500), << Paragraph(0) >>) >>) >>)

ThirdsDoc == Doc(<< ColumnLayout(3, EmptyColumns(3)) >>)

SeventhsDoc == Doc(<< ColumnLayout(7, EmptyColumns(7)) >>)

\* The drag starts from the selection the editor opens with.
InitResize ==
  /\ InitWith({HalvesDoc, ThirdsDoc, SeventhsDoc, StyledDoc})
  /\ sel = near(doc, 0, 1)

NextResize == MouseDown \/ MouseMove \/ MouseUp

SpecResize == InitResize /\ [][NextResize]_vars

\* A drag with host actions that replace the document in between.
InitDragEdit ==
  /\ InitWith({HalvesDoc, ThirdsDoc, StyledDoc})
  /\ sel = near(doc, 0, 1)

NextDragEdit == MouseDown \/ MouseMove \/ MouseUp \/ ClearContent

SpecDragEdit == InitDragEdit /\ [][NextDragEdit]_vars

\* The plugin's scripts and the sidebar.
InitPlugin ==
  /\ InitWith({PlainDoc})
  /\ sel = near(doc, 0, 1)

NextPlugin == PluginInitialize \/ PluginUpdate \/ ToggleSidebar \/ SetSidebarExpanded

SpecPlugin == InitPlugin /\ [][NextPlugin]_vars

\* The bridge of an initialized element.
InitBridge ==
  /\ InitEditor({TextDoc})
  /\ sel = near(doc, 0, 1)
  /\ indicator = IndicatorInit
  /\ eventBridge = EventBridgeInit
  /\ host = HostInit
  /\ \E o \in {pluginInitialize(InstanceInit, ElementInit)} :
       /\ instance = o.instance
       /\ element = o.element
  /\ email = << >>

NextBridge ==
  \/ ClearContent
  \/ HandleEditorUpdate
  \/ TriggerDebounced
  \/ CancelPending
  \/ CancelAllPending
  \/ Destroy
  \/ Tick
  \/ Timeout

SpecBridge == InitBridge /\ [][NextBridge]_vars

\* Bursts of updates: nothing is cancelled, time passes and due timers fire.
NextBurst ==
  \/ ClearContent
  \/ HandleEditorUpdate
  \/ TriggerDebounced
  \/ Tick
  \/ Timeout

SpecBurst ==
  InitBridge /\ [][NextBurst]_vars /\ WF_vars(Tick) /\ WF_vars(Timeout)

(***************************************************************************)
(* The email export (convertToEmailHTML).  The body is the sequence of the  *)
(* elements the HTML of the editor parses to; an element of the body is     *)
(* named by its path, the indices that lead to it.  Comments and text are   *)
(* not elements and are left out, and so are the inline styles of the       *)
(* email dialect; the transforms after transformDivBlocks restyle           *)
(* paragraphs and rules and are not modelled.                               *)
(***************************************************************************)
\* el matches [data-type="v"].
hasDataType(el, v) == getAttribute(el, "data-type") = Some(Chars(v))

RECURSIVE selectFrom(_, _, _, _)

\* The paths of the elements of els[i..] and of their descendants that
\* match [data-type="v"], in document order; prefix is the path of the
\* parent.
selectFrom(els, i, prefix, v) ==
  IF i > Len(els)
    THEN << >>
    ELSE (IF hasDataType(els[i], v) THEN << Append(prefix, i) >> ELSE << >>)
           \o selectFrom(els[i].children, 1, Append(prefix, i), v)
           \o selectFrom(els, i + 1, prefix, v)

\* container.querySelectorAll('[data-type="v"]'): a static list.
querySelectorAll(els, v) == selectFrom(els, 1, << >>, v)

RECURSIVE elementAt(_, _)

elementAt(els, path) ==
  IF Len(path) = 1
    THEN els[path[1]]
    ELSE elementAt(els[path[1]].children, Tail(path))

RECURSIVE replaceElement(_, _, _)

\* element.replaceWith(new) for the element at path.
replaceElement(els, path, new) ==
  IF Len(path) = 1
    THEN [els EXCEPT ![path[1]] = new]
    ELSE [els EXCEPT ![path[1]].children = replaceElement(@, Tail(path), new)]

\* el.innerHTML assigned to the innerHTML of a new element: the new element
\* gets new children with the tags, attributes and content of el's.
innerHTML(el) == el.children

\* layout.querySelectorAll(':scope > [data-type="column"]')
columnsOf(layout) == SelectSeq(layout.children, LAMBDA c : hasDataType(c, "column"))

\* The wrapper a column layout is replaced with: the flex container with
\* one email-column per column, holding the column's innerHTML.  (The table
\* for Outlook is inside a conditional comment.)
layoutWrapper(layout) ==
  Let(columnsOf(layout), LAMBDA columns :
    Element("div", << >>, << >>,
            << Element("div", << >>, << >>,
                       [i \in 1..Len(columns) |->
                          Element("div", ("class" :> Chars("email-column")), << >>,
                                  innerHTML(columns[i]), 0)], 0) >>, 0))

\* The table a div block is replaced with: one row with one cell holding
\* the div's innerHTML.
divTable(div) ==
  Element("table", ("role" :> Chars("presentation")), << >>,
          << Element("tr", << >>, << >>,
                     << Element("td", << >>, << >>, innerHTML(div), 0) >>, 0) >>, 0)

\* path lies below one of the paths of the set.
below(path, paths) ==
  \E p \in paths : Len(p) < Len(path) /\ SubSeq(path, 1, Len(p)) = p

RECURSIVE transformEach(_, _, _, _, _)

\* forEach over the static list: the element at paths[i] is replaced with
\* its wrapper or table.  An element below one that was replaced before is
\* no longer in the body (the replacement holds new elements made from the
\* innerHTML), so that replacing it changes nothing in the body.
transformEach(body, paths, i, replaced, v) ==
  IF i > Len(paths)
    THEN body
    ELSE IF below(paths[i], replaced)
      THEN transformEach(body, paths, i + 1, replaced, v)
      ELSE Let(elementAt(body, paths[i]), LAMBDA el :
             transformEach(
               replaceElement(body, paths[i],
                           IF v = "column-layout" THEN layoutWrapper(el) ELSE divTable(el)),
               paths, i + 1, replaced \cup {paths[i]}, v))

transformColumnLayouts(body) ==
  transformEach(body, querySelectorAll(body, "column-layout"), 1, {}, "column-layout")

transformDivBlocks(body) ==
  transformEach(body, querySelectorAll(body, "div-block"), 1, {}, "div-block")

\* convertToEmailHTML: the body after the transforms.
convertToEmailHTML(h) == transformDivBlocks(transformColumnLayouts(h))

\* ContentEditor.getEmailHTML()
GetEmailHTML ==
  /\ email' = convertToEmailHTML(toHTML(doc))
  /\ op' = "getEmailHTML"
  /\ arg' = << >>
  /\ ret' = TRUE
  /\ changed' = FALSE
  /\ thrown' = FALSE
  /\ UNCHANGED <<editorVars, indicator, eventBridge, host, instance, element>>

\* Containers inside containers of the other type and of the same type.
EmailDocs ==
  { TwoColumnsDoc, NestedColumnsDoc,
    Doc(<< Paragraph(1), DivBlock(<< Paragraph(0) >>) >>),
    Doc(<< DivBlock(<< ColumnLayout(2, EmptyColumns(2)) >>) >>),
    Doc(<< ColumnLayout(2, << Column(<< DivBlock(<< Paragraph(1) >>) >>),
                              Column(<< Paragraph(0) >>) >>) >>),
    Doc(<< DivBlock(<< DivBlock(<< Paragraph(1) >>), Paragraph(0) >>) >>),
    Doc(<< DivBlock(<< ColumnLayout(2, << Column(<< DivBlock(<< Paragraph(0) >>) >>),
                                          Column(<< Paragraph(1) >>) >>) >>),
           HorizontalRule >>) }

InitEmail == InitWith(EmailDocs)

NextEmail == GetEmailHTML

SpecEmail == InitEmail /\ [][NextEmail]_vars

\* Style assignments for a container: colours that are unset, the sentinel,
\* hexadecimal and named; lengths that are unset, 0 and positive.
StyleAssignments ==
  { [backgroundColor |-> bg, borderColor |-> bc, borderTopWidth |-> bt,
     borderRightWidth |-> br, borderTopLeftRadius |-> rtl, paddingTop |-> pt] :
      bg \in {Null, Some("transparent"), Some("#00ff00"), Some("red")},
      bc \in {Null, Some("#ff0000")},
      bt \in {Null, Some(0), Some(2)},
      br \in {Null, Some(0), Some(2)},
      rtl \in {Null, Some(0), Some(4)},
      pt \in {Null, Some(0), Some(8)} }

\* The node with the given attributes, the others as they are.
WithAttrs(node, given) ==
  [node EXCEPT !.attrs = ComputeAttrs(node.type, given @@ node.attrs)]

\* One styled container of each type, in the place the schema gives it.
HtmlDocs ==
  { Doc(<< WithAttrs(DivBlock(<< Paragraph(1) >>), st) >>) : st \in StyleAssignments }
    \cup { Doc(<< ColumnLayout(1, << WithAttrs(Column(<< Paragraph(1) >>),
                                               st @@ [width |-> w]) >>) >>) :
             st \in StyleAssignments, w \in {Null, Some(400)} }
    \cup { Doc(<< WithAttrs(ColumnLayout(n, << Column(<< Paragraph(1) >>) >>), st) >>) :
             st \in StyleAssignments, n \in {1, 3} }

\* Serializing documents of styled containers and parsing them back.
InitHtml ==
  /\ InitWith(HtmlDocs)
  /\ sel = near(doc, 0, 1)

NextHtml == GetHTML \/ SetContent

SpecHtml == InitHtml /\ [][NextHtml]_vars

\* Drops onto a document with a paragraph, a layout and a box.
DropDoc ==
  Doc(<< Paragraph(1),
         ColumnLayout(2, << Column(<< HorizontalRule, Paragraph(0) >>),
                            Column(<< Paragraph(0) >>) >>),
         DivBlock(<< Paragraph(0) >>) >>)

\* The drops start from the selection the editor opens with.
InitDrop ==
  /\ InitWith({DropDoc})
  /\ sel = near(doc, 0, 1)

NextDrop == Drop \/ DragOver \/ DragLeave

SpecDrop == InitDrop /\ [][NextDrop]_vars

\* The command layer as the toolbar and the sidebar drive it.
Init == InitWith({PlainDoc, TwoColumnsDoc})

Next ==
  \/ SetSelection
  \/ AddColumn
  \/ RemoveColumn
  \/ RemoveColumnLayout
  \/ SetParentContainerStyle
  \/ SelectParentContainer

Spec == Init /\ [][Next]_vars

(***************************************************************************)
(* Properties.                                                              *)
(***************************************************************************)
layoutSynced(n) == n.attrs.columns = Some(Len(n.content))

\* C1: after every addColumn / removeColumn each column layout of the
\* document has a `columns` attribute equal to its number of columns.
C1_ColumnsEqualsChildCount ==
  \A q \in nodePositions(doc, {"columnLayout"}) : layoutSynced(nodeAt(doc, q))

\* The depth of the innermost column around the start of selection s, or 0.
innermostColumnDepth(d, s) ==
  IF ancestorDepths(from(d, s), {"column"}) = {} THEN 0
  ELSE Max(ancestorDepths(from(d, s), {"column"}))

\* A text cursor somewhere inside the only column of a one-column layout.
inOnlyColumn(d, s) ==
  /\ s.kind = "text"
  /\ innermostColumnDepth(d, s) > 0
  /\ Len(nodeAtDepth(from(d, s), innermostColumnDepth(d, s) - 1).content) = 1

\* Document d without the layout of the innermost column around s.
withoutLayout(d, s) ==
  deleteRange(d, beforeOf(from(d, s), innermostColumnDepth(d, s) - 1),
              afterOf(from(d, s), innermostColumnDepth(d, s) - 1)).doc

\* C4: removeColumn with the cursor anywhere inside the only column of a
\* one-column layout removes the whole layout node.
C4_RemoveOnlyColumnRemovesLayout ==
  [][(op' = "removeColumn" /\ inOnlyColumn(doc, sel))
       => (ret' = TRUE /\ doc' = withoutLayout(doc, sel))]_vars

\* Container resolution as section 4.3 states it: a whole-node selection of
\* a container is the target, otherwise the nearest container around the
\* cursor; -1 when there is none.
isContainerSelection(d, s) ==
  s.kind = "node" /\ nodeAt(d, s.pos).type \in containerTypes

enclosingContainers(d, s) == ancestorDepths(from(d, s), containerTypes)

nearestEnclosingPos(d, s) ==
  IF enclosingContainers(d, s) = {} THEN -1
  ELSE beforeOf(from(d, s), Max(enclosingContainers(d, s)))

resolvedContainerPos(d, s) ==
  IF isContainerSelection(d, s) THEN s.pos ELSE nearestEnclosingPos(d, s)

\* Documents d and d2 have the same nodes at the same positions, with the
\* same attributes everywhere but at the positions in Q.
sameExceptAttrsAt(d, d2, Q) ==
  /\ contentSize(d2) = contentSize(d)
  /\ \A r \in 0..contentSize(d) :
       /\ nodeAt(d2, r).type = nodeAt(d, r).type
       /\ nodeAt(d2, r).text = nodeAt(d, r).text
       /\ (r \notin Q => nodeAt(d2, r).attrs = nodeAt(d, r).attrs)

\* C5: with a text cursor, setParentContainerStyle changes the attributes
\* of the nearest enclosing container only; every other node is unchanged.
C5_OnlyNearestContainerChanges ==
  [][(op' = "setParentContainerStyle" /\ sel.kind = "text" /\ ret' = TRUE)
       => /\ nearestEnclosingPos(doc, sel) # -1
          /\ sameExceptAttrsAt(doc, doc', {nearestEnclosingPos(doc, sel)})]_vars

\* The cursor sat in a DivBlock inside a Column inside a ColumnLayout, and
\* the DivBlock alone took the attributes.
C5_Witness ==
  /\ op = "setParentContainerStyle"
  /\ ret = TRUE
  /\ sel = NodeSel(2)
  /\ nodeAt(doc, 2).type = "divBlock"
  /\ nodeAt(doc, 2).attrs.paddingTop = Some(10)
  /\ nodeAt(doc, 1).type = "column"
  /\ nodeAt(doc, 1).attrs.paddingTop = Null
  /\ nodeAt(doc, 0).type = "columnLayout"
  /\ nodeAt(doc, 0).attrs.paddingTop = Null

\* C6: the attributes written to the target are the merge of its previous
\* attributes with the provided ones.
C6_MergesOverExistingAttrs ==
  [][(op' = "setParentContainerStyle" /\ ret' = TRUE)
       => \E attributes \in StyleInputs :
            LET q == resolvedContainerPos(doc, sel)
            IN /\ q # -1
               /\ DOMAIN nodeAt(doc', q).attrs = DOMAIN nodeAt(doc, q).attrs
               /\ \A k \in DOMAIN nodeAt(doc, q).attrs :
                    nodeAt(doc', q).attrs[k] =
                      IF k \in DOMAIN attributes THEN attributes[k]
                      ELSE nodeAt(doc, q).attrs[k]]_vars

\* The styled column kept its width and border and took the new background.
C6_Witness ==
  /\ op = "setParentContainerStyle"
  /\ ret = TRUE
  /\ sel = NodeSel(1)
  /\ nodeAt(doc, 1).attrs.width = Some(400)
  /\ nodeAt(doc, 1).attrs.borderTopWidth = Some(2)
  /\ nodeAt(doc, 1).attrs.backgroundColor = Some("#ff0000")
  /\ nodeAt(doc, 1).attrs.paddingTop = Some(10)

\* C7: with a whole-node selection of a container, the target of
\* setParentContainerStyle is the selected node, never an ancestor of it.
C7_SelectedContainerIsTarget ==
  [][(op' = "setParentContainerStyle" /\ isContainerSelection(doc, sel))
       => /\ ret' = TRUE
          /\ sameExceptAttrsAt(doc, doc', {sel.pos})
          /\ \E attributes \in StyleInputs :
               \A k \in DOMAIN attributes : nodeAt(doc', sel.pos).attrs[k] = attributes[k]]_vars

\* The DivBlock was node-selected and styled while the Column and the
\* ColumnLayout around it stayed as they were.
C7_Witness ==
  /\ op = "setParentContainerStyle"
  /\ sel = NodeSel(2)
  /\ nodeAt(doc, 2).type = "divBlock"
  /\ nodeAt(doc, 2).attrs.backgroundColor = Some("#ff0000")
  /\ nodeAt(doc, 1).attrs.backgroundColor = Some("#00ff00")
  /\ nodeAt(doc, 0).attrs.backgroundColor = Null

noLayoutInScope(d, s) ==
  /\ ancestorDepths(from(d, s), {"columnLayout"}) = {}
  /\ ~(s.kind = "node" /\ nodeAt(d, s.pos).type = "columnLayout")

noContainerInScope(d, s) == resolvedContainerPos(d, s) = -1

writtenLeft == nodeAt(doc', resize.columnPos).attrs.width[1]

writtenRight == nodeAt(doc', resize.nextColumnPos).attrs.width[1]

\* C2: during a resize drag, neither of the two widths a pointer-move writes
\* to the dragged columns is below 15%, for every pointer position and every
\* pair of start widths.
C2_WidthsNeverBelowMinimum ==
  [][(op' = "mousemove" /\ changed')
       => /\ writtenLeft >= MIN_COLUMN_WIDTH_PERCENT * 10
          /\ writtenRight >= MIN_COLUMN_WIDTH_PERCENT * 10]_vars

\* C3: during a resize drag, after every pointer-move the two written widths
\* add up to the sum of the two start widths captured at pointer-down.
C3_PairSumPreserved ==
  [][(op' = "mousemove" /\ changed')
       => (writtenLeft + writtenRight) * Tenth
            = resize.startWidths.left + resize.startWidths.right]_vars

\* The block a drop at pointer position pos resolves into, and its boundaries.
dropBlockStart == beforeOf(resolve(doc, arg'.pos), depthOf(resolve(doc, arg'.pos)))

dropBlockEnd == afterOf(resolve(doc, arg'.pos), depthOf(resolve(doc, arg'.pos)))

\* C10: a drop whose pointer position resolves inside a block inserts the new
\* content at the end boundary of that block, as its immediately following
\* sibling, and the block keeps its content and is not split.
C10_DropInsertsAfterBlock ==
  [][(op' = "drop" /\ changed' /\ parentOf(resolve(doc, arg'.pos)).type # "doc")
       => /\ nodeAt(doc', dropBlockStart) = nodeAt(doc, dropBlockStart)
          /\ nodeAt(doc', dropBlockEnd) = template(arg'.payload)
          /\ depthOf(resolve(doc', dropBlockEnd))
               = depthOf(resolve(doc, dropBlockEnd))]_vars

(***************************************************************************)
(* C11: a drop that cannot proceed is a no-op and does not throw.           *)
(***************************************************************************)
\* The drops the claim lists: no data, unparseable or non-object JSON, an
\* unknown type tag, no document position, an image without a URL.
cannotProceed(a) ==
  \/ a.payload.data # "object"
  \/ a.payload.type \notin DropTypes
  \/ a.pos = -1
  \/ (a.payload.type = "image" /\ ~a.payload.url)

\* C11: a drop that cannot proceed (no payload data, unparseable or
\* non-object JSON, unknown type tag, no document position, image without a
\* URL) completes without throwing and leaves the document unchanged.
C11_FailedDropIsNoOp ==
  [][(op' = "drop" /\ cannotProceed(arg')) => (doc' = doc /\ ~thrown')]_vars

\* A drop of the JSON text null over a valid position has completed.
C11_Witness ==
  /\ op = "drop"
  /\ arg.payload.data = "null"
  /\ arg.pos >= 0
  /\ ~thrown

(***************************************************************************)
(* C12: a successful drop inserts the fixed template of its payload type.   *)
(***************************************************************************)
\* The templates the specification names, for a column count n.
specTemplate(type, n) ==
  CASE type = "divBlock" -> DivBlock(<< Paragraph(0) >>)
    [] type = "columnLayout" ->
         ColumnLayout(n, [i \in 1..n |-> Column(<< Paragraph(0) >>)])
    [] type = "table" ->
         Table(<< TableRow("tableHeader"), TableRow("tableCell"), TableRow("tableCell") >>)

\* Where the template inserted by the drop starts in the new document: the
\* insertion position, or behind the closing token of the layout (part) in
\* front of it when that position lies among the columns of a layout.
landingPos(insertPos) ==
  IF parentOf(resolve(doc, insertPos)).type = "columnLayout"
    THEN insertPos + 1
    ELSE insertPos

\* The tokens a drop adds besides the template: the two tokens of the layout
\* it splits when it lands between two columns.
splitTokens(insertPos) ==
  IF /\ parentOf(resolve(doc, insertPos)).type = "columnLayout"
     /\ nodeAt(doc, insertPos).type = "column"
    THEN 2 ELSE 0

insertsExactly(template_) ==
  Let(template_, LAMBDA n :
  Let(dropInsertPos(doc, arg'.pos), LAMBDA insertPos :
    /\ nodeAt(doc', landingPos(insertPos)) = n
    /\ contentSize(doc') = contentSize(doc) + nodeSize(n) + splitTokens(insertPos)))

templateDrop == op' = "drop" /\ changed' /\ arg'.payload.type \in {"divBlock", "columnLayout", "table"}

roundTrip == op' = "setContent" /\ html = toHTML(doc)

\* A style attribute that is neither null nor zero.
nonZero(attrs, k) ==
  IF k \in ColorKeys THEN attrs[k] # Null ELSE attrs[k] \notin {Null, Some(0)}

\* C13: for every container (DivBlock, Column, ColumnLayout) and every
\* assignment of its style attributes, parsing the serialized HTML gives the
\* same node type and the same value of every attribute that was non-null
\* and non-zero before.
C13_RoundTripKeepsStyle ==
  [][roundTrip =>
       \A q \in nodePositions(doc, containerTypes) :
         /\ nodeAt(doc', q).type = nodeAt(doc, q).type
         /\ \A k \in StyleKeys :
              nonZero(nodeAt(doc, q).attrs, k)
                => nodeAt(doc', q).attrs[k] = nodeAt(doc, q).attrs[k]]_vars

\* A DivBlock with a hexadecimal background and a border colour but no
\* border width has been parsed back from its HTML with both colours.
C13_Witness ==
  /\ op = "setContent"
  /\ nodeAt(doc, 0).type = "divBlock"
  /\ nodeAt(doc, 0).attrs.backgroundColor = Some("#00ff00")
  /\ nodeAt(doc, 0).attrs.borderColor = Some("#ff0000")
  /\ nodeAt(doc, 0).attrs.borderTopWidth = Null
  /\ nodeAt(doc, 0).attrs.borderRightWidth \in {Null, Some(0)}

(***************************************************************************)
(* C14: the border part of the style resolver.                              *)
(***************************************************************************)
\* The containers of a document paired with the elements they serialize to.
serialized(d, h) ==
  { [node |-> d.content[1], el |-> h[1]] }
    \cup (IF d.content[1].type = "columnLayout"
            THEN { [node |-> d.content[1].content[1], el |-> h[1].children[1]] }
            ELSE {})

borderProps == {"border-style", "border-width", "border-color"}

hasDecl(el, decl) == \E i \in 1..Len(el.style) : el.style[i] = decl

hasProp(el, props) == \E i \in 1..Len(el.style) : el.style[i].prop \in props

allWidthsZero(attrs) ==
  /\ attrs.borderTopWidth \in {Null, Some(0)}
  /\ attrs.borderRightWidth \in {Null, Some(0)}
  /\ attrs.borderBottomWidth \in {Null, Some(0)}
  /\ attrs.borderLeftWidth \in {Null, Some(0)}

borderRule(attrs, el) ==
  IF allWidthsZero(attrs)
    THEN ~hasProp(el, borderProps)
    ELSE /\ hasDecl(el, Decl("border-style", Chars("solid")))
         /\ hasDecl(el, Decl("border-width",
                             Sides(orZero(attrs.borderTopWidth), orZero(attrs.borderRightWidth),
                                   orZero(attrs.borderBottomWidth), orZero(attrs.borderLeftWidth))))
         /\ IF attrs.borderColor = Null
              THEN ~hasProp(el, {"border-color"})
              ELSE hasDecl(el, Decl("border-color", Chars(attrs.borderColor[1])))

\* C14: the style resolver emits no border declaration at all (style, width
\* or colour) when all four border widths are 0 or unset, whatever
\* borderColor is; with at least one positive width it emits border-style
\* solid and all four widths, 0 for the absent sides, plus border-color if set.
C14_BorderOnlyWithWidth ==
  [][op' = "getHTML" =>
       \A p \in serialized(doc, html') : borderRule(p.node.attrs, p.el)]_vars

\* A container with a border colour and no border width has been serialized.
C14_Witness ==
  /\ op = "getHTML"
  /\ \E p \in serialized(doc, html) :
       /\ p.node.attrs.borderColor # Null
       /\ allWidthsZero(p.node.attrs)
       /\ ~hasProp(p.el, borderProps)

(***************************************************************************)
(* C15: the marker attributes of the containers.                            *)
(***************************************************************************)
markerOf(type) ==
  CASE type = "divBlock" -> "div-block"
    [] type = "column" -> "column"
    [] type = "columnLayout" -> "column-layout"

carriesMarkers(node, el) ==
  /\ getAttribute(el, "data-type") = Some(Chars(markerOf(node.type)))
  /\ node.type = "columnLayout"
       => getAttribute(el, "data-columns") = Some(NumText(node.attrs.columns[1]))
  /\ node.type = "column"
       => /\ (getAttribute(el, "data-width") # Null) <=> (node.attrs.width # Null)
          /\ node.attrs.width # Null
               => getAttribute(el, "data-width") = Some(PctText(node.attrs.width[1]))

restoresMarked(before, after) ==
  /\ after.type = before.type
  /\ before.type = "columnLayout" => after.attrs.columns = before.attrs.columns
  /\ before.type = "column" => after.attrs.width = before.attrs.width

\* C15: the serialization of a DivBlock, Column and ColumnLayout carries
\* data-type 'div-block', 'column' and 'column-layout'; a ColumnLayout always
\* carries data-columns equal to `columns`, a Column carries data-width
\* exactly when `width` is set; parsing the output restores the node type,
\* `columns` and `width`.
C15_MarkersRoundTrip ==
  [][/\ op' = "getHTML"
          => \A p \in serialized(doc, html') : carriesMarkers(p.node, p.el)
     /\ roundTrip
          => \A q \in nodePositions(doc, containerTypes) :
               restoresMarked(nodeAt(doc, q), nodeAt(doc', q))]_vars

\* A Column with a width inside a layout of `columns` 1 has been parsed back
\* from the HTML of the document.
C15_Witness ==
  /\ op = "setContent"
  /\ html = toHTML(doc)
  /\ nodeAt(doc, 0).type = "columnLayout"
  /\ nodeAt(doc, 0).attrs.columns = Some(1)
  /\ nodeAt(doc, 1).type = "column"
  /\ nodeAt(doc, 1).attrs.width = Some(400)

(***************************************************************************)
(* C16: no new drag starts while a drag is active.                          *)
(***************************************************************************)
\* C16: while a resize drag is active, a further pointer-down on a resize
\* handle does not start a new drag: startX, the column positions, the start
\* widths and the layout width stay those of the drag in progress.
C16_NoDragStartWhileDragging ==
  [][(resize.dragging /\ op' = "mousedown") => resize' = resize]_vars

(***************************************************************************)
(* C17: the styled container stays selected.                                *)
(***************************************************************************)
\* C17: after a successful setParentContainerStyle the selection is the
\* whole-node selection of the container that received the attributes, at
\* the position it had before, from a text cursor inside it as well as from
\* a whole-node selection of it; a repeated call resolves to that container.
C17_StyledContainerStaysSelected ==
  [][(op' = "setParentContainerStyle" /\ ret' = TRUE)
       => Let(resolvedContainerPos(doc, sel), LAMBDA q :
            /\ q # -1
            /\ sel' = NodeSel(q)
            /\ nodeAt(doc', q).type = nodeAt(doc, q).type
            /\ nodeAt(doc', q).type \in containerTypes
            /\ \E attributes \in StyleInputs :
                 \A k \in DOMAIN attributes : nodeAt(doc', q).attrs[k] = attributes[k]
            /\ resolvedContainerPos(doc', sel') = q)]_vars

\* The plain second column took the style and is the selected node, while
\* the layout around it and the paragraph inside it carry no style.
C17_Witness ==
  /\ op = "setParentContainerStyle"
  /\ ret = TRUE
  /\ sel.kind = "node"
  /\ sel.pos > 2
  /\ nodeAt(doc, sel.pos).type = "column"
  /\ nodeAt(doc, sel.pos).attrs.width = Null
  /\ nodeAt(doc, sel.pos).attrs.paddingTop = Some(10)
  /\ nodeAt(doc, 0).attrs.paddingTop = Null

(***************************************************************************)
(* C18: addColumn from every selection in or on a layout.                   *)
(***************************************************************************)
\* The layout a selection is in or on: the selected node when it is a
\* ColumnLayout, otherwise the nearest ColumnLayout around $from; -1 when
\* there is none.
layoutOf(d, s) ==
  IF s.kind = "node" /\ nodeAt(d, s.pos).type = "columnLayout" THEN s.pos
  ELSE IF ancestorDepths(from(d, s), {"columnLayout"}) = {} THEN -1
  ELSE beforeOf(from(d, s), Max(ancestorDepths(from(d, s), {"columnLayout"})))

\* Layout `new` is layout `old` with one more child at the end: a Column
\* that holds one empty paragraph.
oneColumnAppended(old, new) ==
  /\ Len(new.content) = Len(old.content) + 1
  /\ \A i \in 1..Len(old.content) : new.content[i] = old.content[i]
  /\ Let(new.content[Len(new.content)], LAMBDA last :
       /\ last.type = "column"
       /\ Len(last.content) = 1
       /\ last.content[1].type = "paragraph"
       /\ nodeSize(last.content[1]) = 2)

\* C18: whenever the selection is nested in or on a ColumnLayout (a cursor
\* inside it, a whole-node selection of one of its columns or of the layout
\* itself), addColumn succeeds and appends exactly one Column with one empty
\* paragraph as the last child of that layout.
C18_AddColumnFromAnySelection ==
  [][(op' = "addColumn" /\ layoutOf(doc, sel) # -1)
       => Let(layoutOf(doc, sel), LAMBDA q :
            /\ ret' = TRUE
            /\ nodeAt(doc', q).type = "columnLayout"
            /\ oneColumnAppended(nodeAt(doc, q), nodeAt(doc', q)))]_vars

(***************************************************************************)
(* C19: which clicks select a container.                                    *)
(***************************************************************************)
\* C19: a click ends in the whole-node selection of a container only when
\* it landed on that container's own element (its border or background); a
\* click on the content slot of a container or on content nested in it does
\* not select a container.
C19_OnlyOwnAreaSelectsContainer ==
  [][(op' = "click" /\ isContainerSelection(doc', sel'))
       => /\ arg'.part # "slot"
          /\ nodeAt(doc, arg'.inside).type \in containerTypes
          /\ sel'.pos = arg'.inside]_vars

(***************************************************************************)
(* C20: medium is the absence of the TextSize mark.                         *)
(***************************************************************************)
RECURSIVE marksIn(_)
\* The TextSize marks the text of a node carries.
marksIn(node) ==
  IF node.type = "paragraph" THEN {node.marks[i] : i \in 1..node.text}
  ELSE UNION {marksIn(node.content[i]) : i \in 1..Len(node.content)}

\* C20: after any sequence of setTextSize / unsetTextSize commands, sidebar
\* text-size actions and HTML parses, no text carries a TextSize mark whose
\* size is medium.
C20_MediumIsNeverStored == Some("medium") \notin marksIn(doc)

(***************************************************************************)
(* C22: a pointer-move writes widths and nothing else.                      *)
(***************************************************************************)
\* C22: a pointer-move of a drag changes nothing in the document but the
\* width of the two columns captured at drag start: their other attributes
\* and their content, and every other node, stay as they were.
C22_MoveWritesOnlyWidths ==
  [][(op' = "mousemove" /\ ret' = TRUE)
       => /\ sameExceptAttrsAt(doc, doc', {resize.columnPos, resize.nextColumnPos})
          /\ \A q \in {resize.columnPos, resize.nextColumnPos} :
               \A k \in DOMAIN nodeAt(doc, q).attrs \ {"width"} :
                 nodeAt(doc', q).attrs[k] = nodeAt(doc, q).attrs[k]]_vars

(***************************************************************************)
(* C23: widths are written during a drag only.                              *)
(***************************************************************************)
\* C23: the resize engine writes column widths only between a pointer-down
\* that started a drag and the next pointer-up: a pointer-move in the idle
\* state changes nothing, and pointer-up returns to idle and changes no width.
C23_WidthsWrittenOnlyWhileDragging ==
  [][/\ (op' = "mousemove" /\ ~resize.dragging) => (doc' = doc /\ ret' = FALSE)
     /\ op' = "mouseup" => (doc' = doc /\ ~resize'.dragging)
     /\ doc' # doc => (op' = "mousemove" /\ resize.dragging)]_vars

\* A drag that wrote a new width to the first column has ended.
C23_Witness ==
  /\ op = "mouseup"
  /\ ret = TRUE
  /\ ~resize.dragging
  /\ nodeAt(doc, 0).type = "columnLayout"
  /\ nodeAt(doc, 1).attrs.width \notin {Null, Some(500), Some(400)}

(***************************************************************************)
(* C24: the column commands leave the outer layouts alone.                  *)
(***************************************************************************)
\* C24: addColumn and removeColumn modify only the nearest ColumnLayout
\* around the cursor: a layout further out keeps its `columns` attribute and
\* its number of children.
C24_OuterLayoutUntouched ==
  [][(op' \in {"addColumn", "removeColumn"} /\ sel.kind = "text")
       => Let(from(doc, sel), LAMBDA rp :
          Let(ancestorDepths(rp, {"columnLayout"}), LAMBDA ds :
            \A dp \in ds \ {Max(ds)} :
              Let(beforeOf(rp, dp), LAMBDA q :
                /\ nodeAt(doc', q).type = "columnLayout"
                /\ nodeAt(doc', q).attrs.columns = nodeAt(doc, q).attrs.columns
                /\ Len(nodeAt(doc', q).content) = Len(nodeAt(doc, q).content))))]_vars

(***************************************************************************)
(* C25: a pointer-move after the document was replaced.                     *)
(***************************************************************************)
\* C25: a pointer-move of a drag, also when another transaction replaced or
\* edited the document since the pointer-down, does not fail on a position
\* that holds no node and changes the attributes of no node that is not a
\* column.
C25_MoveAfterReplaceIsSafe ==
  [][(op' = "mousemove" /\ resize.dragging)
       => /\ ~thrown'
          /\ \A r \in 0..(contentSize(doc) - 1) :
               nodeAt(doc, r).type \notin {"column", "none", "text"}
                 => nodeAt(doc', r).attrs = nodeAt(doc, r).attrs]_vars

\* C29: for every pointer position that resolves to a document position, the
\* positions whose parent is the top-level doc included, drag-over raises no
\* error and draws the indicator at the start boundary of the block under
\* the pointer.
C29_DragOverNeverThrows ==
  [][(op' = "dragover" /\ arg'.pos # -1) =>
       /\ ~thrown'
       /\ indicator'.display = "block"
       /\ Let(resolve(doc, arg'.pos), LAMBDA rp :
            depthOf(rp) > 0 => indicator'.top = beforeOf(rp, depthOf(rp)))]_vars

\* Away from the top level drag-over behaves as C29 says.
C29_DragOverInsideBlocks ==
  [][(op' = "dragover" /\ arg'.pos # -1) =>
       Let(resolve(doc, arg'.pos), LAMBDA rp :
         depthOf(rp) > 0 =>
           /\ ~thrown'
           /\ indicator' = [display |-> "block", top |-> beforeOf(rp, depthOf(rp))])]_vars

(***************************************************************************)
(* C21, C27: the debounced events of the bridge.                            *)
(***************************************************************************)
\* The indices of the log entries of kind kind for event name.
entries(kind, name) ==
  {i \in DOMAIN host.log : host.log[i].kind = kind /\ host.log[i].name = name}

\* The kind of the last log entry for event name, "none" without one.
lastKind(name) ==
  Let(entries("trigger", name) \cup entries("event", name), LAMBDA is :
    IF is = {} THEN "none"
    ELSE host.log[CHOOSE i \in is : \A j \in is : j <= i].kind)

\* At most one timer is scheduled per event name, and every event the host
\* received came debounceDelay after the last call for its name before it,
\* with the data of that call, and is the only event since that call.
DebouncedDelivery ==
  /\ \A name \in EventNames :
       Cardinality({x \in host.timers : x.name = name}) <= 1
  /\ \A i \in DOMAIN host.log :
       host.log[i].kind = "event" =>
         Let({j \in entries("trigger", host.log[i].name) : j < i}, LAMBDA before :
           /\ before # {}
           /\ Let(CHOOSE j \in before : \A k \in before : k <= j, LAMBDA last :
                /\ host.log[i].data = host.log[last].data
                /\ host.log[i].at = host.log[last].at + debounceDelay
                /\ \A k \in entries("event", host.log[i].name) : ~(last < k /\ k < i)))

\* C21: content_changed is debounced by 300 ms: after a burst of updates,
\* each less than 300 ms after the one before, exactly one event is
\* delivered, 300 ms after the last update and with its data, and at most
\* one timer per event name is pending at any time.
C21_Debounced ==
  /\ []DebouncedDelivery
  /\ \A name \in EventNames : (lastKind(name) = "trigger") ~> (lastKind(name) = "event")

\* Two updates with different content less than 300 ms apart were followed
\* by one content_changed event, which carries the content of the second.
C21_Witness ==
  /\ Len(host.log) = 3
  /\ host.log[1].kind = "trigger" /\ host.log[1].name = "content_changed"
  /\ host.log[2].kind = "trigger" /\ host.log[2].name = "content_changed"
  /\ host.log[2].at > host.log[1].at
  /\ host.log[2].at < host.log[1].at + debounceDelay
  /\ host.log[2].data # host.log[1].data
  /\ host.log[3] = Entry("event", "content_changed", host.log[2].data,
                         host.log[2].at + debounceDelay)
  /\ host.timers = {}

\* C27: after cancelAllPending() or destroy() no timer remains and the map
\* is empty, so that no event scheduled before is delivered; cancelPending
\* does so for its name and leaves the timers of the other names; a timer
\* that fires is the one the map holds for its name.
C27_CancelledEventsNotDelivered ==
  [][/\ op' \in {"cancelAllPending", "destroy"} =>
          /\ host'.timers = {}
          /\ \A n \in EventNames : eventBridge'.debounceTimers[n] = 0
          /\ host'.log = host.log
     /\ op' = "cancelPending" =>
          /\ \A x \in host'.timers : x.name # arg'.name
          /\ eventBridge'.debounceTimers[arg'.name] = 0
          /\ {x \in host'.timers : x.name # arg'.name}
               = {x \in host.timers : x.name # arg'.name}
          /\ \A n \in EventNames \ {arg'.name} :
               eventBridge'.debounceTimers[n] = eventBridge.debounceTimers[n]
          /\ host'.log = host.log
     /\ op' = "timeout" =>
          /\ eventBridge.debounceTimers[arg'.name] = arg'.id
          /\ \E x \in host.timers : x.id = arg'.id /\ x.due = host.clock]_vars

\* Events of both names were scheduled and cancelled; their due time has
\* passed and the host received no event.
C27_Witness ==
  /\ \A name \in EventNames : lastKind(name) = "trigger"
  /\ \A i \in DOMAIN host.log :
       /\ host.log[i].kind = "trigger"
       /\ host.clock > host.log[i].at + debounceDelay
  /\ host.timers = {}
  /\ op = "tick"

(***************************************************************************)
(* C26, C28: the plugin's scripts, the toolbar and the sidebar.             *)
(***************************************************************************)
\* An update call before initialize stores the properties and does not
\* invoke the callback.
UpdateBeforeInitializeStores ==
  (op' = "update" /\ ~instance.initialized) =>
     /\ instance'.calls = instance.calls
     /\ instance'.currentProperties = Some(allProperties(arg'))
     /\ element' = element

\* Initialize applies the properties stored before it.
InitializeAppliesStored ==
  (op' = "initialize" /\ instance.currentProperties # Null) =>
     Let(instance.currentProperties[1], LAMBDA props :
       /\ instance'.calls = << changesOf(props) >>
       /\ element'.editable = props.editable
       /\ element'.toolbarShown = props.toolbar_visible)

\* Once initialized, an update call invokes the callback once, with the
\* current properties.
UpdateInvokesCallbackOnce ==
  (op' = "update" /\ instance.initialized) =>
     Let(allProperties(arg'), LAMBDA props :
       /\ instance'.currentProperties = Some(props)
       /\ instance'.calls = Append(instance.calls, changesOf(props))
       /\ element'.editable = props.editable)

\* C26: properties delivered by an update call before initialize has
\* finished are stored without invoking the callback and applied to the
\* editor when initialize completes; once initialized, every update call
\* passes the current properties to the callback exactly once.
C26_PendingPropertiesApplied ==
  [][/\ UpdateBeforeInitializeStores
     /\ InitializeAppliesStored
     /\ UpdateInvokesCallbackOnce]_vars

\* The parts of C26 about the update script hold.
C26_UpdateScript ==
  [][UpdateBeforeInitializeStores /\ UpdateInvokesCallbackOnce]_vars

\* C28: the toolbar is visible only if toolbar_visible is true and the
\* sidebar is collapsed.
C28_ToolbarVisibleOnlyIfAllowed ==
  (element.initialized /\ element.toolbarShown) =>
     /\ getProperty(instance, "toolbar_visible") = Some(TRUE)
     /\ ~element.sidebarExpanded

\* The part of C28 that holds: a toggle that expands the sidebar hides the
\* toolbar.
C28_ExpandingHidesToolbar ==
  [][(op' = "toggleSidebar" /\ element.initialized /\ element'.sidebarExpanded)
       => ~element'.toolbarShown]_vars

(***************************************************************************)
(* C30: the email export.                                                   *)
(***************************************************************************)
\* C30: the output of convertToEmailHTML holds no element with data-type
\* column-layout or div-block, at any nesting depth of the input.
C30_NoContainerLeft ==
  op = "getEmailHTML" =>
    /\ querySelectorAll(email, "column-layout") = << >>
    /\ querySelectorAll(email, "div-block") = << >>

\* No container of the body lies inside a container of its own type.
flat(h) ==
  \A v \in {"column-layout", "div-block"} :
    Let(querySelectorAll(h, v), LAMBDA paths :
      \A i \in DOMAIN paths : ~below(paths[i], {paths[j] : j \in DOMAIN paths}))

\* C30 holds for the documents in which no column layout lies inside a
\* column layout and no div block inside a div block.
C30_FlatContainersConverted ==
  (op = "getEmailHTML" /\ flat(toHTML(doc))) =>
    /\ querySelectorAll(email, "column-layout") = << >>
    /\ querySelectorAll(email, "div-block") = << >>

====
